---- MODULE Spec2Model ----
(***************************************************************************)
(* A model of the tsconfig crate (src/lib.rs): parse_str and the serde     *)
(* Deserialize implementations it drives.  Text is a sequence of           *)
(* one-character strings; JSON values and typed results are tagged tuples. *)
(***************************************************************************)
EXTENDS Integers, Sequences, FiniteSets, TLC

VARIABLES doc, edit, json, pc, replaced, stripped, result

vars == <<doc, edit, json, pc, replaced, stripped, result>>

-----------------------------------------------------------------------------
(* Characters.                                                             *)

LowerLetters == <<"a", "b", "c", "d", "e", "f", "g", "h", "i", "j", "k", "l", "m", "n", "o", "p", "q", "r", "s", "t", "u", "v", "w", "x", "y", "z">>

UpperLetters == <<"A", "B", "C", "D", "E", "F", "G", "H", "I", "J", "K", "L", "M", "N", "O", "P", "Q", "R", "S", "T", "U", "V", "W", "X", "Y", "Z">>

Digits == {"0", "1", "2", "3", "4", "5", "6", "7", "8", "9"}

is_uppercase(c) == \E i \in 1..26 : UpperLetters[i] = c

to_ascii_uppercase(c) ==
    IF \E i \in 1..26 : LowerLetters[i] = c
    THEN UpperLetters[CHOOSE i \in 1..26 : LowerLetters[i] = c]
    ELSE c

to_ascii_lowercase(c) ==
    IF \E i \in 1..26 : UpperLetters[i] = c
    THEN LowerLetters[CHOOSE i \in 1..26 : UpperLetters[i] = c]
    ELSE c

\* str::to_uppercase, on the ASCII texts of the model
to_uppercase(s) == [i \in 1..Len(s) |-> to_ascii_uppercase(s[i])]

RECURSIVE Flatten(_, _, _)
\* the concatenation of pieces[lo..hi], by halves
Flatten(pieces, lo, hi) ==
    IF lo > hi THEN <<>>
    ELSE IF lo = hi THEN pieces[lo]
    ELSE LET mid == (lo + hi) \div 2
         IN Flatten(pieces, lo, mid) \o Flatten(pieces, mid + 1, hi)

Concat(pieces) == Flatten(pieces, 1, Len(pieces))

Min(S) == CHOOSE x \in S : \A y \in S : x <= y

Max(S) == CHOOSE x \in S : \A y \in S : x >= y

-----------------------------------------------------------------------------
(* Results and options.                                                    *)

None == <<"None">>

Some(v) == <<"Some", v>>

Err == <<"Err">>

Ok(v) == <<"Ok", v>>

IsOk(r) == r[1] = "Ok"

IsErr(r) == r[1] = "Err"

-----------------------------------------------------------------------------
(* JSON values, as the strict parser reads them.                           *)

JNull == <<"null">>

JBool(b) == <<"bool", b>>

JNum(digits) == <<"num", digits>>

JStr(s) == <<"str", s>>

JArr(xs) == <<"arr", xs>>

\* members in document order, each <<key, value>>; duplicate keys are kept
JObj(kvs) == <<"obj", kvs>>

Kind(v) == v[1]

-----------------------------------------------------------------------------
(* parse_str, first step: Regex::new(r",(?P<valid>\s*})") and              *)
(* replace_all(json, "$valid").                                            *)

\* \s of the regex crate (Unicode White_Space), on the characters of the model
RegexSpace == {" ", "\t", "\n", "\r", "\f"}

\* Matches for a regex that also accepts `]`: ,(?P<valid>\s*[}\]])
MatchesAnyCloser(t, i) ==
    /\ t[i] = ","
    /\ \E j \in (i + 1)..Len(t) :
          /\ t[j] \in {"}", "]"}
          /\ \A k \in (i + 1)..(j - 1) : t[k] \in RegexSpace

\* the match of the regex that starts at index i, if any: the comma at i,
\* then \s*, then `}`.  Matches hold one comma each, so none overlap.
Matches(t, i) ==
    /\ t[i] = ","
    /\ \E j \in (i + 1)..Len(t) :
          /\ t[j] = "}"
          /\ \A k \in (i + 1)..(j - 1) : t[k] \in RegexSpace

\* every match is replaced by its group `valid`, that is, loses its comma
replace_all(t) ==
    Concat([i \in 1..Len(t) |-> IF Matches(t, i) THEN <<>> ELSE <<t[i]>>])

-----------------------------------------------------------------------------
(* parse_str, second step: json_comments::StripComments, a byte-wise state *)
(* machine that blanks comments and fails on a stray '/' or on input that  *)
(* ends inside a string or a block comment.                                *)

StripStep(st, c) ==
    CASE st = "Top" ->
            IF c = "\"" THEN <<"InString", c>>
            ELSE IF c = "/" THEN <<"InComment", " ">>
            ELSE <<"Top", c>>
      [] st = "InString" ->
            IF c = "\"" THEN <<"Top", c>>
            ELSE IF c = "\\" THEN <<"StringEscape", c>>
            ELSE <<"InString", c>>
      [] st = "StringEscape" -> <<"InString", c>>
      [] st = "InComment" ->
            IF c = "*" THEN <<"InBlockComment", " ">>
            ELSE IF c = "/" THEN <<"InLineComment", " ">>
            ELSE <<"Error", c>>
      [] st = "InBlockComment" ->
            IF c = "*" THEN <<"MaybeCommentEnd", " ">>
            ELSE <<"InBlockComment", " ">>
      [] st = "MaybeCommentEnd" ->
            IF c = "/" THEN <<"Top", " ">>
            ELSE IF c = "*" THEN <<"MaybeCommentEnd", " ">>
            ELSE <<"InBlockComment", " ">>
      [] st = "InLineComment" ->
            IF c = "\n" THEN <<"Top", c>> ELSE <<"InLineComment", " ">>
      [] OTHER -> <<"Error", c>>

RECURSIVE strip_buf(_, _, _, _)
\* the bytes lo..hi read from state st: <<state after, bytes as rewritten>>
strip_buf(t, lo, hi, st) ==
    IF lo > hi THEN <<st, <<>>>>
    ELSE IF lo = hi
         THEN LET s == StripStep(st, t[lo]) IN <<s[1], <<s[2]>>>>
         ELSE LET mid == (lo + hi) \div 2
                  left == strip_buf(t, lo, mid, st)
              IN IF left[1] = "Error" THEN left
                 ELSE LET right == strip_buf(t, mid + 1, hi, left[1])
                      IN <<right[1], left[2] \o right[2]>>

\* Ok(text read through the reader) or Err (the reader's io::Error)
StripComments(t) ==
    LET s == strip_buf(t, 1, Len(t), "Top")
    IN IF s[1] \in {"Top", "InLineComment"} THEN Ok(s[2]) ELSE Err

-----------------------------------------------------------------------------
(* parse_str, third step: serde_json::from_reader.  The reader is strict   *)
(* JSON; it is modelled as a parser to a value followed by the typed       *)
(* Deserialize implementations below.  Numbers are unsigned integers.      *)

JsonSpace == {" ", "\t", "\n", "\r"}

ControlChars == {"\t", "\n", "\r", "\f"}

Escapes == {"\"", "\\", "/", "b", "f", "n", "r", "t"}

\* the first index at or after i that holds no whitespace
parse_whitespace(t, i) ==
    Min({k \in i..Len(t) : t[k] \notin JsonSpace} \cup {Len(t) + 1})

\* a parse result: <<"Ok", value, next index>> or Err
At(v, i) == <<"Ok", v, i>>

Unescape(c) ==
    CASE c = "n" -> "\n" [] c = "t" -> "\t" [] c = "r" -> "\r"
      [] c = "f" -> "\f" [] c = "b" -> "<backspace>" [] OTHER -> c

\* the number of backslashes that immediately precede index k, from index i on
BackslashRun(t, i, k) ==
    Max({r \in 0..(k - i) : \A m \in (k - r)..(k - 1) : t[m] = "\\"})

\* index k of a literal that starts at i holds a backslash that escapes t[k+1]
Escaping(t, i, k) == t[k] = "\\" /\ BackslashRun(t, i, k) % 2 = 0

\* index k of a literal that starts at i holds an escaped character
IsEscaped(t, i, k) == k > i /\ Escaping(t, i, k - 1)

\* a string literal; i is the index after the opening quote
parse_str_literal(t, i) ==
    LET closing == {j \in i..Len(t) : t[j] = "\"" /\ ~IsEscaped(t, i, j)}
        j == Min(closing)
        bad(k) == IF IsEscaped(t, i, k) THEN t[k] \notin Escapes
                  ELSE t[k] \in ControlChars
        piece(k) == IF IsEscaped(t, i, k) THEN <<Unescape(t[k])>>
                    ELSE IF Escaping(t, i, k) THEN <<>>
                    ELSE <<t[k]>>
    IN IF closing = {} THEN Err
       ELSE IF \E k \in i..(j - 1) : bad(k) THEN Err
       ELSE At(Concat([n \in 1..(j - i) |-> piece(i + n - 1)]), j + 1)

parse_number(t, i) ==
    LET end == Min({k \in i..Len(t) : t[k] \notin Digits} \cup {Len(t) + 1})
    IN IF t[i] = "0" /\ end > i + 1 THEN Err
       ELSE At(JNum(SubSeq(t, i, end - 1)), end)

parse_ident(t, i, word, v) ==
    IF i + Len(word) - 1 <= Len(t) /\ SubSeq(t, i, i + Len(word) - 1) = word
    THEN At(v, i + Len(word))
    ELSE Err

RECURSIVE parse_value(_, _), parse_elements(_, _, _), parse_members(_, _, _)

\* i is the index after '[' or after a ','; acc the elements read so far
parse_elements(t, i, acc) ==
    LET v == parse_value(t, i)
    IN IF IsErr(v) THEN Err
       ELSE LET k == parse_whitespace(t, v[3])
                xs == Append(acc, v[2])
            IN IF k > Len(t) THEN Err
               ELSE IF t[k] = "]" THEN At(JArr(xs), k + 1)
               ELSE IF t[k] = "," THEN parse_elements(t, k + 1, xs)
               ELSE Err

\* i is the index after '{' or after a ','; acc the members read so far
parse_members(t, i, acc) ==
    LET q == parse_whitespace(t, i)
    IN IF q > Len(t) \/ t[q] # "\"" THEN Err
       ELSE LET key == parse_str_literal(t, q + 1)
            IN IF IsErr(key) THEN Err
               ELSE LET c == parse_whitespace(t, key[3])
                    IN IF c > Len(t) \/ t[c] # ":" THEN Err
                       ELSE LET v == parse_value(t, c + 1)
                            IN IF IsErr(v) THEN Err
                               ELSE LET k == parse_whitespace(t, v[3])
                                        kvs == Append(acc, <<key[2], v[2]>>)
                                    IN IF k > Len(t) THEN Err
                                       ELSE IF t[k] = "}" THEN At(JObj(kvs), k + 1)
                                       ELSE IF t[k] = "," THEN parse_members(t, k + 1, kvs)
                                       ELSE Err

parse_value(t, i0) ==
    LET i == parse_whitespace(t, i0)
    IN IF i > Len(t) THEN Err
       ELSE CASE t[i] = "{" ->
                    LET q == parse_whitespace(t, i + 1)
                    IN IF q <= Len(t) /\ t[q] = "}" THEN At(JObj(<<>>), q + 1)
                       ELSE parse_members(t, i + 1, <<>>)
              [] t[i] = "[" ->
                    LET q == parse_whitespace(t, i + 1)
                    IN IF q <= Len(t) /\ t[q] = "]" THEN At(JArr(<<>>), q + 1)
                       ELSE parse_elements(t, i + 1, <<>>)
              [] t[i] = "\"" ->
                    LET s == parse_str_literal(t, i + 1)
                    IN IF IsErr(s) THEN Err ELSE At(JStr(s[2]), s[3])
              [] t[i] = "t" -> parse_ident(t, i, <<"t", "r", "u", "e">>, JBool(TRUE))
              [] t[i] = "f" -> parse_ident(t, i, <<"f", "a", "l", "s", "e">>, JBool(FALSE))
              [] t[i] = "n" -> parse_ident(t, i, <<"n", "u", "l", "l">>, JNull)
              [] t[i] \in Digits -> parse_number(t, i)
              [] OTHER -> Err

\* the whole text is one value followed by whitespace only (Deserializer::end)
from_text(t) ==
    LET v == parse_value(t, 1)
    IN IF IsErr(v) THEN Err
       ELSE IF parse_whitespace(t, v[3]) > Len(t) THEN Ok(v[2]) ELSE Err

-----------------------------------------------------------------------------
(* Bounds of the model.                                                    *)

\* whitespace characters between a trailing comma and the closing character
MaxPad == 1

\* elements of a references array
MaxRefs == 2

\* the most keys of a generated paths mapping
MaxPaths == 2
-----------------------------------------------------------------------------
(* The schema: types, and the identifiers the derive macros match on.      *)

T_bool == <<"bool">>

T_String == <<"String">>

Option(t) == <<"Option", t>>

Vec(t) == <<"Vec", t>>

\* HashMap<String, t>
HashMap(t) == <<"HashMap", t>>

Named(n) == <<"Named", n>>

\* identifiers of src/lib.rs, as texts

path == <<"p", "a", "t", "h">>

prepend == <<"p", "r", "e", "p", "e", "n", "d">>

enable == <<"e", "n", "a", "b", "l", "e">>

include == <<"i", "n", "c", "l", "u", "d", "e">>

exclude == <<"e", "x", "c", "l", "u", "d", "e">>

disable_filename_based_type_acquisition == <<"d", "i", "s", "a", "b", "l", "e", "_", "f", "i", "l", "e", "n", "a", "m", "e", "_", "b", "a", "s", "e", "d", "_", "t", "y", "p", "e", "_", "a", "c", "q", "u", "i", "s", "i", "t", "i", "o", "n">>

extends == <<"e", "x", "t", "e", "n", "d", "s">>

references == <<"r", "e", "f", "e", "r", "e", "n", "c", "e", "s">>

type_acquisition == <<"t", "y", "p", "e", "_", "a", "c", "q", "u", "i", "s", "i", "t", "i", "o", "n">>

compiler_options == <<"c", "o", "m", "p", "i", "l", "e", "r", "_", "o", "p", "t", "i", "o", "n", "s">>

jsx == <<"j", "s", "x">>

lib == <<"l", "i", "b">>

module == <<"m", "o", "d", "u", "l", "e">>

target == <<"t", "a", "r", "g", "e", "t">>

strict == <<"s", "t", "r", "i", "c", "t">>

base_url == <<"b", "a", "s", "e", "_", "u", "r", "l">>

module_resolution == <<"m", "o", "d", "u", "l", "e", "_", "r", "e", "s", "o", "l", "u", "t", "i", "o", "n">>

paths == <<"p", "a", "t", "h", "s">>

types == <<"t", "y", "p", "e", "s">>

Bool == <<"B", "o", "o", "l">>

ReferencesKw == <<"R", "e", "f", "e", "r", "e", "n", "c", "e", "s">>

Object == <<"O", "b", "j", "e", "c", "t">>

Node == <<"N", "o", "d", "e">>

Classic == <<"C", "l", "a", "s", "s", "i", "c">>

ReactJsx == <<"R", "e", "a", "c", "t", "J", "s", "x">>

Reference_fields ==
    << <<path, T_String>>,
       <<prepend, Option(T_bool)>> >>

Object_fields ==
    << <<enable, T_bool>>,
       <<include, Option(Vec(T_String))>>,
       <<exclude, Option(Vec(T_String))>>,
       <<disable_filename_based_type_acquisition, Option(T_bool)>> >>

TsConfig_fields ==
    << <<exclude, Option(Vec(T_String))>>,
       <<extends, Option(T_String)>>,
       <<<<"f", "i", "l", "e", "s">>, Option(Vec(T_String))>>,
       <<include, Option(Vec(T_String))>>,
       <<references, Option(Named("References"))>>,
       <<type_acquisition, Option(Named("TypeAcquisition"))>>,
       <<compiler_options, Option(Named("CompilerOptions"))>> >>

CompilerOptions_fields ==
    << <<<<"a", "l", "l", "o", "w", "_", "j", "s">>, Option(T_bool)>>,
       <<<<"c", "h", "e", "c", "k", "_", "j", "s">>, Option(T_bool)>>,
       <<<<"c", "o", "m", "p", "o", "s", "i", "t", "e">>, Option(T_bool)>>,
       <<<<"d", "e", "c", "l", "a", "r", "a", "t", "i", "o", "n">>, Option(T_bool)>>,
       <<<<"d", "e", "c", "l", "a", "r", "a", "t", "i", "o", "n", "_", "m", "a", "p">>, Option(T_bool)>>,
       <<<<"d", "o", "w", "n", "l", "e", "v", "e", "l", "_", "i", "t", "e", "r", "a", "t", "i", "o", "n">>, Option(T_bool)>>,
       <<<<"i", "m", "p", "o", "r", "t", "_", "h", "e", "l", "p", "e", "r", "s">>, Option(T_bool)>>,
       <<<<"i", "n", "c", "r", "e", "m", "e", "n", "t", "a", "l">>, Option(T_bool)>>,
       <<<<"i", "s", "o", "l", "a", "t", "e", "d", "_", "m", "o", "d", "u", "l", "e", "s">>, Option(T_bool)>>,
       <<jsx, Option(Named("Jsx"))>>,
       <<lib, Option(Vec(Named("Lib")))>>,
       <<module, Option(Named("Module"))>>,
       <<<<"n", "o", "_", "e", "m", "i", "t">>, Option(T_bool)>>,
       <<<<"o", "u", "t", "_", "d", "i", "r">>, Option(T_String)>>,
       <<<<"o", "u", "t", "_", "f", "i", "l", "e">>, Option(T_String)>>,
       <<<<"r", "e", "m", "o", "v", "e", "_", "c", "o", "m", "m", "e", "n", "t", "s">>, Option(T_bool)>>,
       <<<<"r", "o", "o", "t", "_", "d", "i", "r">>, Option(T_String)>>,
       <<<<"s", "o", "u", "r", "c", "e", "_", "m", "a", "p">>, Option(T_bool)>>,
       <<target, Option(Named("Target"))>>,
       <<<<"t", "s", "_", "b", "u", "i", "l", "d", "_", "i", "n", "f", "o", "_", "f", "i", "l", "e">>, Option(T_String)>>,
       <<<<"a", "l", "w", "a", "y", "s", "_", "s", "t", "r", "i", "c", "t">>, Option(T_bool)>>,
       <<<<"n", "o", "_", "i", "m", "p", "l", "i", "c", "i", "t", "_", "a", "n", "y">>, Option(T_bool)>>,
       <<<<"n", "o", "_", "i", "m", "p", "l", "i", "c", "i", "t", "_", "t", "h", "i", "s">>, Option(T_bool)>>,
       <<strict, Option(T_bool)>>,
       <<<<"s", "t", "r", "i", "c", "t", "_", "b", "i", "n", "d", "_", "c", "a", "l", "l", "_", "a", "p", "p", "l", "y">>, Option(T_bool)>>,
       <<<<"s", "t", "r", "i", "c", "t", "_", "f", "u", "n", "c", "t", "i", "o", "n", "_", "t", "y", "p", "e", "s">>, Option(T_bool)>>,
       <<<<"s", "t", "r", "i", "c", "t", "_", "n", "u", "l", "l", "_", "c", "h", "e", "c", "k", "s">>, Option(T_bool)>>,
       <<<<"s", "t", "r", "i", "c", "t", "_", "p", "r", "o", "p", "e", "r", "t", "y", "_", "i", "n", "i", "t", "i", "a", "l", "i", "z", "a", "t", "i", "o", "n">>, Option(T_bool)>>,
       <<<<"a", "l", "l", "o", "w", "_", "s", "y", "n", "t", "h", "e", "t", "i", "c", "_", "d", "e", "f", "a", "u", "l", "t", "_", "i", "m", "p", "o", "r", "t", "s">>, Option(T_bool)>>,
       <<<<"a", "l", "l", "o", "w", "_", "u", "m", "d", "_", "g", "l", "o", "b", "a", "l", "_", "a", "c", "c", "e", "s", "s">>, Option(T_bool)>>,
       <<base_url, Option(T_bool)>>,
       <<<<"e", "s", "_", "m", "o", "d", "u", "l", "e", "_", "i", "n", "t", "e", "r", "o", "p">>, Option(T_bool)>>,
       <<module_resolution, Option(Named("ModuleResolutionMode"))>>,
       <<paths, Option(HashMap(Vec(T_String)))>>,
       <<<<"p", "r", "e", "s", "e", "r", "v", "e", "_", "s", "y", "m", "l", "i", "n", "k", "s">>, Option(T_bool)>>,
       <<<<"r", "o", "o", "t", "_", "d", "i", "r", "s">>, Option(Vec(T_String))>>,
       <<<<"t", "y", "p", "e", "_", "r", "o", "o", "t", "s">>, Option(Vec(T_String))>>,
       <<types, Option(Vec(T_String))>>,
       <<<<"i", "n", "l", "i", "n", "e", "_", "s", "o", "u", "r", "c", "e", "_", "m", "a", "p">>, Option(T_bool)>>,
       <<<<"i", "n", "l", "i", "n", "e", "_", "s", "o", "u", "r", "c", "e", "s">>, Option(T_bool)>>,
       <<<<"m", "a", "p", "_", "r", "o", "o", "t">>, Option(T_String)>>,
       <<<<"s", "o", "u", "r", "c", "e", "_", "r", "o", "o", "t">>, Option(T_String)>>,
       <<<<"n", "o", "_", "f", "a", "l", "l", "t", "h", "r", "o", "u", "g", "h", "_", "c", "a", "s", "e", "s", "_", "i", "n", "_", "s", "w", "i", "t", "c", "h">>, Option(T_bool)>>,
       <<<<"n", "o", "_", "i", "m", "p", "l", "i", "c", "i", "t", "_", "r", "e", "t", "u", "r", "n", "s">>, Option(T_bool)>>,
       <<<<"n", "o", "_", "p", "r", "o", "p", "e", "r", "t", "y", "_", "a", "c", "c", "e", "s", "s", "_", "f", "r", "o", "m", "_", "i", "n", "d", "e", "x", "_", "s", "i", "g", "n", "a", "t", "u", "r", "e">>, Option(T_bool)>> >>

Jsx_variants ==
    << <<"R", "e", "a", "c", "t">>,
       ReactJsx,
       <<"R", "e", "a", "c", "t", "J", "s", "x", "d", "e", "v">>,
       <<"R", "e", "a", "c", "t", "N", "a", "t", "i", "v", "e">>,
       <<"P", "r", "e", "s", "e", "r", "v", "e">> >>

Target_variants ==
    << <<"E", "s", "3">>,
       <<"E", "s", "5">>,
       <<"E", "s", "2", "0", "1", "5">>,
       <<"E", "s", "6">>,
       <<"E", "s", "2", "0", "1", "6">>,
       <<"E", "s", "7">>,
       <<"E", "s", "2", "0", "1", "7">>,
       <<"E", "s", "2", "0", "1", "8">>,
       <<"E", "s", "2", "0", "1", "9">>,
       <<"E", "s", "2", "0", "2", "0">>,
       <<"E", "s", "N", "e", "x", "t">> >>

Lib_variants ==
    << <<"E", "s", "5">>,
       <<"E", "s", "2", "0", "1", "5">>,
       <<"E", "s", "6">>,
       <<"E", "s", "2", "0", "1", "6">>,
       <<"E", "s", "7">>,
       <<"E", "s", "2", "0", "1", "7">>,
       <<"E", "s", "2", "0", "1", "8">>,
       <<"E", "s", "2", "0", "1", "9">>,
       <<"E", "s", "2", "0", "2", "0">>,
       <<"E", "s", "N", "e", "x", "t">>,
       <<"D", "o", "m">>,
       <<"W", "e", "b", "W", "o", "r", "k", "e", "r">>,
       <<"S", "c", "r", "i", "p", "t", "H", "o", "s", "t">>,
       <<"D", "o", "m", "I", "t", "e", "r", "a", "b", "l", "e">>,
       <<"E", "s", "2", "0", "1", "5", "C", "o", "r", "e">>,
       <<"E", "s", "2", "0", "1", "5", "G", "e", "n", "e", "r", "a", "t", "o", "r">>,
       <<"E", "s", "2", "0", "1", "5", "I", "t", "e", "r", "a", "b", "l", "e">>,
       <<"E", "s", "2", "0", "1", "5", "P", "r", "o", "m", "i", "s", "e">>,
       <<"E", "s", "2", "0", "1", "5", "P", "r", "o", "x", "y">>,
       <<"E", "s", "2", "0", "1", "5", "R", "e", "f", "l", "e", "c", "t">>,
       <<"E", "s", "2", "0", "1", "5", "S", "y", "m", "b", "o", "l">>,
       <<"E", "s", "2", "0", "1", "5", "S", "y", "m", "b", "o", "l", "W", "e", "l", "l", "K", "n", "o", "w", "n">>,
       <<"E", "s", "2", "0", "1", "6", "A", "r", "r", "a", "y", "I", "n", "c", "l", "u", "d", "e">>,
       <<"E", "s", "2", "0", "1", "7", "O", "b", "j", "e", "c", "t">>,
       <<"E", "s", "2", "0", "1", "7", "I", "n", "t", "l">>,
       <<"E", "s", "2", "0", "1", "7", "S", "h", "a", "r", "e", "d", "M", "e", "m", "o", "r", "y">>,
       <<"E", "s", "2", "0", "1", "7", "S", "t", "r", "i", "n", "g">>,
       <<"E", "s", "2", "0", "1", "7", "T", "y", "p", "e", "d", "A", "r", "r", "a", "y", "s">>,
       <<"E", "s", "2", "0", "1", "8", "I", "n", "t", "l">>,
       <<"E", "s", "2", "0", "1", "8", "P", "r", "o", "m", "i", "s", "e">>,
       <<"E", "s", "2", "0", "1", "8", "R", "e", "g", "E", "x", "p">>,
       <<"E", "s", "2", "0", "1", "9", "A", "r", "r", "a", "y">>,
       <<"E", "s", "2", "0", "1", "9", "O", "b", "j", "e", "c", "t">>,
       <<"E", "s", "2", "0", "1", "9", "S", "t", "r", "i", "n", "g">>,
       <<"E", "s", "2", "0", "1", "9", "S", "y", "m", "b", "o", "l">>,
       <<"E", "s", "2", "0", "2", "0", "S", "t", "r", "i", "n", "g">>,
       <<"E", "s", "2", "0", "2", "0", "S", "y", "m", "b", "o", "l", "W", "e", "l", "l", "k", "n", "o", "w", "n">>,
       <<"E", "s", "N", "e", "x", "t", "A", "s", "y", "n", "c", "I", "t", "e", "r", "a", "b", "l", "e">>,
       <<"E", "s", "N", "e", "x", "t", "A", "r", "r", "a", "y">>,
       <<"E", "s", "N", "e", "x", "t", "I", "n", "t", "l">>,
       <<"E", "s", "N", "e", "x", "t", "S", "y", "m", "b", "o", "l">> >>

Module_variants ==
    << <<"C", "o", "m", "m", "o", "n", "J", "s">>,
       <<"E", "s", "6">>,
       <<"E", "s", "2", "0", "1", "5">>,
       <<"E", "s", "2", "0", "2", "0">>,
       <<"N", "o", "n", "e">>,
       <<"U", "m", "d">>,
       <<"A", "m", "d">>,
       <<"S", "y", "s", "t", "e", "m">>,
       <<"E", "s", "N", "e", "x", "t">> >>

Target_table ==
    << <<<<"E", "S", "5">>, <<"E", "s", "5">>>>,
       <<<<"E", "S", "2", "0", "1", "5">>, <<"E", "s", "2", "0", "1", "5">>>>,
       <<<<"E", "S", "6">>, <<"E", "s", "6">>>>,
       <<<<"E", "S", "2", "0", "1", "6">>, <<"E", "s", "2", "0", "1", "6">>>>,
       <<<<"E", "S", "7">>, <<"E", "s", "7">>>>,
       <<<<"E", "S", "2", "0", "1", "7">>, <<"E", "s", "2", "0", "1", "7">>>>,
       <<<<"E", "S", "2", "0", "1", "8">>, <<"E", "s", "2", "0", "1", "8">>>>,
       <<<<"E", "S", "2", "0", "1", "9">>, <<"E", "s", "2", "0", "1", "9">>>>,
       <<<<"E", "S", "2", "0", "2", "0">>, <<"E", "s", "2", "0", "2", "0">>>>,
       <<<<"E", "S", "N", "E", "X", "T">>, <<"E", "s", "N", "e", "x", "t">>>> >>

Lib_table ==
    << <<<<"E", "S", "5">>, <<"E", "s", "5">>>>,
       <<<<"E", "S", "2", "0", "1", "5">>, <<"E", "s", "2", "0", "1", "5">>>>,
       <<<<"E", "S", "6">>, <<"E", "s", "6">>>>,
       <<<<"E", "S", "2", "0", "1", "6">>, <<"E", "s", "2", "0", "1", "6">>>>,
       <<<<"E", "S", "7">>, <<"E", "s", "7">>>>,
       <<<<"E", "S", "2", "0", "1", "7">>, <<"E", "s", "2", "0", "1", "7">>>>,
       <<<<"E", "S", "2", "0", "1", "8">>, <<"E", "s", "2", "0", "1", "8">>>>,
       <<<<"E", "S", "2", "0", "1", "9">>, <<"E", "s", "2", "0", "1", "9">>>>,
       <<<<"E", "S", "2", "0", "2", "0">>, <<"E", "s", "2", "0", "2", "0">>>>,
       <<<<"E", "S", "N", "e", "x", "t">>, <<"E", "s", "N", "e", "x", "t">>>>,
       <<<<"D", "O", "M">>, <<"D", "o", "m">>>>,
       <<<<"W", "E", "B", "W", "O", "R", "K", "E", "R">>, <<"W", "e", "b", "W", "o", "r", "k", "e", "r">>>>,
       <<<<"S", "C", "R", "I", "P", "T", "H", "O", "S", "T">>, <<"S", "c", "r", "i", "p", "t", "H", "o", "s", "t">>>>,
       <<<<"D", "O", "M", ".", "I", "T", "E", "R", "A", "B", "L", "E">>, <<"D", "o", "m", "I", "t", "e", "r", "a", "b", "l", "e">>>>,
       <<<<"E", "S", "2", "0", "1", "5", ".", "C", "O", "R", "E">>, <<"E", "s", "2", "0", "1", "5", "C", "o", "r", "e">>>>,
       <<<<"E", "S", "2", "0", "1", "5", ".", "G", "E", "N", "E", "R", "A", "T", "O", "R">>, <<"E", "s", "2", "0", "1", "5", "G", "e", "n", "e", "r", "a", "t", "o", "r">>>>,
       <<<<"E", "S", "2", "0", "1", "5", ".", "I", "T", "E", "R", "A", "B", "L", "E">>, <<"E", "s", "2", "0", "1", "5", "I", "t", "e", "r", "a", "b", "l", "e">>>>,
       <<<<"E", "S", "2", "0", "1", "5", ".", "P", "R", "O", "M", "I", "S", "E">>, <<"E", "s", "2", "0", "1", "5", "P", "r", "o", "m", "i", "s", "e">>>>,
       <<<<"E", "S", "2", "0", "1", "5", ".", "P", "R", "O", "X", "Y">>, <<"E", "s", "2", "0", "1", "5", "P", "r", "o", "x", "y">>>>,
       <<<<"E", "S", "2", "0", "1", "5", ".", "R", "E", "F", "L", "E", "C", "T">>, <<"E", "s", "2", "0", "1", "5", "R", "e", "f", "l", "e", "c", "t">>>>,
       <<<<"E", "S", "2", "0", "1", "5", ".", "S", "Y", "M", "B", "O", "L">>, <<"E", "s", "2", "0", "1", "5", "S", "y", "m", "b", "o", "l">>>>,
       <<<<"E", "S", "2", "0", "1", "5", ".", "S", "Y", "M", "B", "O", "L", ".", "W", "E", "L", "L", "K", "N", "O", "W", "N">>, <<"E", "s", "2", "0", "1", "5", "S", "y", "m", "b", "o", "l", "W", "e", "l", "l", "K", "n", "o", "w", "n">>>>,
       <<<<"E", "S", "2", "0", "1", "5", ".", "A", "R", "R", "A", "Y", ".", "I", "N", "C", "L", "U", "D", "E">>, <<"E", "s", "2", "0", "1", "6", "A", "r", "r", "a", "y", "I", "n", "c", "l", "u", "d", "e">>>>,
       <<<<"E", "S", "2", "0", "1", "5", ".", "O", "B", "J", "E", "C", "T">>, <<"E", "s", "2", "0", "1", "7", "O", "b", "j", "e", "c", "t">>>>,
       <<<<"E", "S", "2", "0", "1", "7", "I", "N", "T", "L">>, <<"E", "s", "2", "0", "1", "7", "I", "n", "t", "l">>>>,
       <<<<"E", "S", "2", "0", "1", "5", ".", "S", "H", "A", "R", "E", "D", "M", "E", "M", "O", "R", "Y">>, <<"E", "s", "2", "0", "1", "7", "S", "h", "a", "r", "e", "d", "M", "e", "m", "o", "r", "y">>>>,
       <<<<"E", "S", "2", "0", "1", "7", ".", "S", "T", "R", "I", "N", "G">>, <<"E", "s", "2", "0", "1", "7", "S", "t", "r", "i", "n", "g">>>>,
       <<<<"E", "S", "2", "0", "1", "7", ".", "T", "Y", "P", "E", "D", "A", "R", "R", "A", "Y", "S">>, <<"E", "s", "2", "0", "1", "7", "T", "y", "p", "e", "d", "A", "r", "r", "a", "y", "s">>>>,
       <<<<"E", "S", "2", "0", "1", "8", ".", "I", "N", "T", "L">>, <<"E", "s", "2", "0", "1", "8", "I", "n", "t", "l">>>>,
       <<<<"E", "S", "2", "0", "1", "8", ".", "P", "R", "O", "M", "I", "S", "E">>, <<"E", "s", "2", "0", "1", "8", "P", "r", "o", "m", "i", "s", "e">>>>,
       <<<<"E", "S", "2", "0", "1", "8", ".", "R", "E", "G", "E", "X", "P">>, <<"E", "s", "2", "0", "1", "8", "R", "e", "g", "E", "x", "p">>>>,
       <<<<"E", "S", "2", "0", "1", "9", ".", "A", "R", "R", "A", "Y">>, <<"E", "s", "2", "0", "1", "9", "A", "r", "r", "a", "y">>>>,
       <<<<"E", "S", "2", "0", "1", "9", ".", "O", "B", "J", "E", "C", "T">>, <<"E", "s", "2", "0", "1", "9", "O", "b", "j", "e", "c", "t">>>>,
       <<<<"E", "S", "2", "0", "1", "9", ".", "S", "T", "R", "I", "N", "G">>, <<"E", "s", "2", "0", "1", "9", "S", "t", "r", "i", "n", "g">>>>,
       <<<<"E", "S", "2", "0", "1", "9", ".", "S", "Y", "M", "B", "O", "L">>, <<"E", "s", "2", "0", "1", "9", "S", "y", "m", "b", "o", "l">>>>,
       <<<<"E", "S", "2", "0", "2", "0", ".", "S", "T", "R", "I", "N", "G">>, <<"E", "s", "2", "0", "2", "0", "S", "t", "r", "i", "n", "g">>>>,
       <<<<"E", "S", "2", "0", "2", "0", ".", "S", "Y", "M", "B", "O", "L", ".", "W", "E", "L", "L", "K", "N", "O", "W", "N">>, <<"E", "s", "2", "0", "2", "0", "S", "y", "m", "b", "o", "l", "W", "e", "l", "l", "k", "n", "o", "w", "n">>>>,
       <<<<"E", "S", "N", "E", "X", "T", ".", "A", "S", "Y", "N", "C", "I", "T", "E", "R", "A", "B", "L", "E">>, <<"E", "s", "N", "e", "x", "t", "A", "s", "y", "n", "c", "I", "t", "e", "r", "a", "b", "l", "e">>>>,
       <<<<"E", "S", "N", "E", "X", "T", ".", "A", "R", "R", "A", "Y">>, <<"E", "s", "N", "e", "x", "t", "A", "r", "r", "a", "y">>>>,
       <<<<"E", "S", "N", "E", "X", "T", ".", "I", "N", "T", "L">>, <<"E", "s", "N", "e", "x", "t", "I", "n", "t", "l">>>>,
       <<<<"E", "S", "N", "E", "X", "T", ".", "S", "Y", "M", "B", "O", "L">>, <<"E", "s", "N", "e", "x", "t", "S", "y", "m", "b", "o", "l">>>> >>

Module_table ==
    << <<<<"C", "O", "M", "M", "O", "N", "J", "S">>, <<"C", "o", "m", "m", "o", "n", "J", "s">>>>,
       <<<<"E", "S", "N", "E", "X", "T">>, <<"E", "s", "N", "e", "x", "t">>>>,
       <<<<"E", "S", "6">>, <<"E", "s", "6">>>>,
       <<<<"E", "S", "2", "0", "1", "5">>, <<"E", "s", "2", "0", "1", "5">>>>,
       <<<<"E", "S", "2", "0", "2", "0">>, <<"E", "s", "2", "0", "2", "0">>>>,
       <<<<"N", "O", "N", "E">>, <<"N", "o", "n", "e">>>>,
       <<<<"U", "M", "D">>, <<"U", "m", "d">>>>,
       <<<<"A", "M", "D">>, <<"A", "m", "d">>>>,
       <<<<"S", "Y", "S", "T", "E", "M">>, <<"S", "y", "s", "t", "e", "m">>>> >>
-----------------------------------------------------------------------------
(* serde_derive's rename rules (#[serde(rename_all = ...)]).               *)

NotUnderscore(c) == c # "_"

\* PascalCase: underscores are dropped, the character after one (and the
\* first) is capitalised
PascalCase(field) ==
    SelectSeq([i \in 1..Len(field) |->
                  IF i = 1 \/ field[i - 1] = "_"
                  THEN to_ascii_uppercase(field[i]) ELSE field[i]],
              NotUnderscore)

\* snake_case: every uppercase character but the first gets an underscore
\* before it, and all are lowercased
SnakeCase(variant) ==
    Concat([i \in 1..Len(variant) |->
              IF i > 1 /\ is_uppercase(variant[i])
              THEN <<"_", to_ascii_lowercase(variant[i])>>
              ELSE <<to_ascii_lowercase(variant[i])>>])

apply_to_field(rule, field) ==
    CASE rule = "camelCase" ->
            LET pascal == PascalCase(field)
            IN IF pascal = <<>> THEN pascal
               ELSE <<to_ascii_lowercase(pascal[1])>> \o Tail(pascal)
      [] OTHER -> field

\* apply_to_variant with every rule taken for lowercase
apply_to_variant_lowercase(rule, variant) ==
    [i \in 1..Len(variant) |-> to_ascii_lowercase(variant[i])]

apply_to_variant(rule, variant) ==
    CASE rule = "kebab-case" ->
            LET snake == SnakeCase(variant)
            IN [i \in 1..Len(snake) |-> IF snake[i] = "_" THEN "-" ELSE snake[i]]
      [] OTHER -> variant

\* the fields of a struct and the rename rule of its declaration
StructFields(name) ==
    CASE name = "TsConfig" -> TsConfig_fields
      [] name = "CompilerOptions" -> CompilerOptions_fields
      [] name = "Reference" -> Reference_fields
      [] name = "Object" -> Object_fields

StructRename(name) ==
    CASE name = "TsConfig" -> "camelCase"
      [] OTHER -> "None"

\* the keys a struct answers to, in field order
StructKeys(name) ==
    [n \in 1..Len(StructFields(name)) |->
        apply_to_field(StructRename(name), StructFields(name)[n][1])]

TsConfig_keys == StructKeys("TsConfig")

CompilerOptions_keys == StructKeys("CompilerOptions")

Reference_keys == StructKeys("Reference")

Object_keys == StructKeys("Object")

KeysOf(name) ==
    CASE name = "TsConfig" -> TsConfig_keys
      [] name = "CompilerOptions" -> CompilerOptions_keys
      [] name = "Reference" -> Reference_keys
      [] name = "Object" -> Object_keys

\* the variants of a derived enum: <<identifier, name matched, kind, payload>>
Jsx_enum ==
    [n \in 1..Len(Jsx_variants) |->
        <<Jsx_variants[n], apply_to_variant("kebab-case", Jsx_variants[n]), "unit", <<>>>>]

ModuleResolutionMode_enum ==
    << <<Node, <<"n", "o", "d", "e">>, "unit", <<>>>>,
       <<Classic, <<"c", "l", "a", "s", "s", "i", "c">>, "unit", <<>>>> >>

TypeAcquisition_enum ==
    << <<Bool, apply_to_variant("None", Bool), "newtype", T_bool>>,
       <<Object, apply_to_variant("None", Object), "struct", "Object">> >>

EnumVariants(name) ==
    CASE name = "Jsx" -> Jsx_enum
      [] name = "ModuleResolutionMode" -> ModuleResolutionMode_enum
      [] name = "TypeAcquisition" -> TypeAcquisition_enum

\* the match of a hand-written Deserialize: uppercased token to variant
MatchTable(name) ==
    CASE name = "Target" -> Target_table
      [] name = "Lib" -> Lib_table
      [] name = "Module" -> Module_table

-----------------------------------------------------------------------------
(* Deserialize, for every type of the schema.                              *)

\* missing_field with a defaulted collection: an absent list becomes empty
missing_field_default(ty) ==
    IF ty[1] = "Option"
    THEN IF ty[2][1] = "Vec" THEN Ok(Some(<<>>)) ELSE Ok(None)
    ELSE Err

\* a field whose key is absent: Option fields are unset, others are an error
missing_field(ty) == IF ty[1] = "Option" THEN Ok(None) ELSE Err

\* impl Deserialize for Target / Lib / Module
deserialize_token(name, v) ==
    IF Kind(v) # "str" THEN Err
    ELSE LET s == to_uppercase(v[2])
             table == MatchTable(name)
             arms == {n \in 1..Len(table) : table[n][1] = s}
         IN IF arms = {} THEN Err ELSE Ok(<<name, table[Min(arms)][2]>>)

RECURSIVE Deserialize(_, _)

\* derived visit_map: unknown keys are skipped, a repeated key is an error
visit_map(name, kvs) ==
    LET fields == StructFields(name)
        keys == KeysOf(name)
        hits(n) == {i \in 1..Len(kvs) : kvs[i][1] = keys[n]}
        value == [n \in 1..Len(fields) |->
                    IF hits(n) = {} THEN missing_field(fields[n][2])
                    ELSE Deserialize(fields[n][2], kvs[Min(hits(n))][2])]
    IN IF \E n \in 1..Len(fields) : Cardinality(hits(n)) > 1 THEN Err
       ELSE IF \E n \in 1..Len(fields) : IsErr(value[n]) THEN Err
       ELSE Ok([id \in {fields[n][1] : n \in 1..Len(fields)} |->
                  value[CHOOSE n \in 1..Len(fields) : fields[n][1] = id][2]])

\* derived visit_seq: one element per field, in declaration order
visit_seq(name, xs) ==
    LET fields == StructFields(name)
        value == [n \in 1..Len(fields) |-> Deserialize(fields[n][2], xs[n])]
    IN IF Len(xs) # Len(fields) THEN Err
       ELSE IF \E n \in 1..Len(fields) : IsErr(value[n]) THEN Err
       ELSE Ok([id \in {fields[n][1] : n \in 1..Len(fields)} |->
                  value[CHOOSE n \in 1..Len(fields) : fields[n][1] = id][2]])

deserialize_struct(name, v) ==
    CASE Kind(v) = "obj" -> visit_map(name, v[2])
      [] Kind(v) = "arr" -> visit_seq(name, v[2])
      [] OTHER -> Err

\* a derived, externally tagged enum: "Variant" or {"Variant": payload}
deserialize_enum(name, v) ==
    LET variants == EnumVariants(name)
        named(s) == {n \in 1..Len(variants) : variants[n][2] = s}
        tag == IF Kind(v) = "str" THEN v[2] ELSE v[2][1][1]
        variant == variants[Min(named(tag))]
    IN CASE Kind(v) = "str" ->
                IF named(tag) = {} THEN Err
                ELSE IF variant[3] = "unit" THEN Ok(<<name, variant[1]>>)
                ELSE Err
         [] Kind(v) = "obj" ->
                IF Len(v[2]) # 1 THEN Err
                ELSE IF named(tag) = {} THEN Err
                ELSE LET payload == v[2][1][2]
                         inner == CASE variant[3] = "unit" ->
                                          IF payload = JNull THEN Ok(<<>>) ELSE Err
                                    [] variant[3] = "newtype" ->
                                          Deserialize(variant[4], payload)
                                    [] variant[3] = "struct" ->
                                          deserialize_struct(variant[4], payload)
                     IN IF IsErr(inner) THEN Err
                        ELSE IF variant[3] = "unit" THEN Ok(<<name, variant[1]>>)
                        ELSE Ok(<<name, variant[1], inner[2]>>)
         [] OTHER -> Err

\* deserialize_untagged without its second variant
deserialize_untagged_bool_only(v) ==
    LET b == Deserialize(T_bool, v)
    IN IF IsOk(b) THEN Ok(<<"References", Bool, b[2]>>) ELSE Err

\* #[serde(untagged)] enum References: the variants are tried in order
deserialize_untagged(v) ==
    LET b == Deserialize(T_bool, v)
        r == Deserialize(Vec(Named("Reference")), v)
    IN IF IsOk(b) THEN Ok(<<"References", Bool, b[2]>>)
       ELSE IF IsOk(r) THEN Ok(<<"References", ReferencesKw, r[2]>>)
       ELSE Err

Deserialize(ty, v) ==
    CASE ty[1] = "bool" -> IF Kind(v) = "bool" THEN Ok(v[2]) ELSE Err
      [] ty[1] = "String" -> IF Kind(v) = "str" THEN Ok(v[2]) ELSE Err
      [] ty[1] = "Option" ->
            IF v = JNull THEN Ok(None)
            ELSE LET r == Deserialize(ty[2], v)
                 IN IF IsErr(r) THEN Err ELSE Ok(Some(r[2]))
      [] ty[1] = "Vec" ->
            IF Kind(v) # "arr" THEN Err
            ELSE LET r == [n \in 1..Len(v[2]) |-> Deserialize(ty[2], v[2][n])]
                 IN IF \E n \in 1..Len(r) : IsErr(r[n]) THEN Err
                    ELSE Ok([n \in 1..Len(r) |-> r[n][2]])
      [] ty[1] = "HashMap" ->
            IF Kind(v) # "obj" THEN Err
            ELSE LET kvs == v[2]
                     r == [n \in 1..Len(kvs) |-> Deserialize(ty[2], kvs[n][2])]
                     last(k) == Max({n \in 1..Len(kvs) : kvs[n][1] = k})
                 IN IF \E n \in 1..Len(r) : IsErr(r[n]) THEN Err
                    ELSE Ok([k \in {kvs[n][1] : n \in 1..Len(kvs)} |-> r[last(k)][2]])
      [] ty[1] = "Named" ->
            CASE ty[2] \in {"TsConfig", "CompilerOptions", "Reference"} ->
                    deserialize_struct(ty[2], v)
              [] ty[2] \in {"Jsx", "ModuleResolutionMode", "TypeAcquisition"} ->
                    deserialize_enum(ty[2], v)
              [] ty[2] = "References" -> deserialize_untagged(v)
              [] ty[2] \in {"Target", "Lib", "Module"} -> deserialize_token(ty[2], v)

-----------------------------------------------------------------------------
(* parse_str.                                                              *)

\* serde_json::from_reader over the stripped reader, then `?` and Ok(r)
from_reader(s) ==
    IF IsErr(s) THEN Err
    ELSE LET value == from_text(s[2])
         IN IF IsErr(value) THEN Err
            ELSE Deserialize(Named("TsConfig"), value[2])

parse_str(text) == from_reader(StripComments(replace_all(text)))

-----------------------------------------------------------------------------
(* The caller: documents, their JSON text, and the decorations (trailing   *)
(* commas) the input format allows on top of strict JSON.                  *)

Escaped(s) ==
    Concat([i \in 1..Len(s) |->
              CASE s[i] = "\"" -> <<"\\", "\"">>
                [] s[i] = "\\" -> <<"\\", "\\">>
                [] s[i] = "\n" -> <<"\\", "n">>
                [] s[i] = "\t" -> <<"\\", "t">>
                [] OTHER -> <<s[i]>>])

Quoted(s) == <<"\"">> \o Escaped(s) \o <<"\"">>

RECURSIVE Emit(_), EmitElements(_, _, _), EmitMembers(_, _, _)

EmitElements(xs, i, acc) ==
    IF i > Len(xs) THEN acc
    ELSE EmitElements(xs, i + 1,
            acc \o (IF i > 1 THEN <<",">> ELSE <<>>) \o Emit(xs[i]))

EmitMembers(kvs, i, acc) ==
    IF i > Len(kvs) THEN acc
    ELSE EmitMembers(kvs, i + 1,
            acc \o (IF i > 1 THEN <<",">> ELSE <<>>)
                \o Quoted(kvs[i][1]) \o <<":">> \o Emit(kvs[i][2]))

\* the strict JSON text of a value, without insignificant whitespace
Emit(v) ==
    CASE Kind(v) = "null" -> <<"n", "u", "l", "l">>
      [] Kind(v) = "bool" -> IF v[2] THEN <<"t", "r", "u", "e">> ELSE <<"f", "a", "l", "s", "e">>
      [] Kind(v) = "num" -> v[2]
      [] Kind(v) = "str" -> Quoted(v[2])
      [] Kind(v) = "arr" -> <<"[">> \o EmitElements(v[2], 1, <<>>) \o <<"]">>
      [] Kind(v) = "obj" -> <<"{">> \o EmitMembers(v[2], 1, <<>>) \o <<"}">>

\* index n of a strict JSON text lies inside a string literal: an odd number
\* of unescaped quotes precede it
InLiteral(t, n) ==
    Cardinality({k \in 1..(n - 1) :
                    t[k] = "\"" /\ BackslashRun(t, 1, k) % 2 = 0}) % 2 = 1

\* the indices of the structural characters c of text t
Structural(t, c) == {n \in 1..Len(t) : t[n] = c /\ ~InLiteral(t, n)}

InsertAt(t, n, s) == SubSeq(t, 1, n - 1) \o s \o SubSeq(t, n, Len(t))

NoEdit == <<"none">>

\* a comma and `pad` before the closing brace (bracket) at index n
ObjComma(n, pad) == <<"objcomma", n, pad>>

ArrComma(n, pad) == <<"arrcomma", n, pad>>

Pads == {s \in UNION {[1..k -> {" ", "\n"}] : k \in 0..MaxPad} :
            \A i \in 1..Len(s) : i > 1 => s[i] = " "}

Edits(t) ==
    {NoEdit}
    \cup {ObjComma(n, pad) : n \in Structural(t, "}"), pad \in Pads}
    \cup {ArrComma(n, pad) : n \in Structural(t, "]"), pad \in Pads}

\* the text t with the trailing comma of edit e, if it is one
ApplyComma(t, e) ==
    IF e = NoEdit THEN t ELSE InsertAt(t, e[2], <<",">> \o e[3])

\* the comment c at index n of the text that the edit e gives
Comment(e, n, c) == <<"comment", e, n, c>>

\* a line comment with its line end, a block comment, and a block comment
\* whose body looks like JSON
Comments == {<<"/", "/", "x", "\n">>, <<"/", "*", "x", "*", "/">>, <<"/", "*", "\"", ",", "}", "*", "/">>}

\* the indices of text t, its end included, that are outside string literals
Outside(t) == {n \in 1..(Len(t) + 1) : ~InLiteral(t, n)}

CommentEdits(t) ==
    UNION {{Comment(e, n, c) : n \in Outside(ApplyComma(t, e)), c \in Comments} :
              e \in Edits(t)}

ApplyEdit(t, e) ==
    IF e[1] = "comment" THEN InsertAt(ApplyComma(t, e[2]), e[3], e[4])
    ELSE ApplyComma(t, e)

-----------------------------------------------------------------------------
(* The documents the caller passes.                                        *)

\* each Document field: identifier, key as tsconfig.json spells it, a value of its kind
DocumentOptions ==
    << <<<<"e", "x", "c", "l", "u", "d", "e">>, <<"e", "x", "c", "l", "u", "d", "e">>, JArr(<<JStr(<<"s", "r", "c">>)>>)>>,
       <<<<"e", "x", "t", "e", "n", "d", "s">>, <<"e", "x", "t", "e", "n", "d", "s">>, JStr(<<"s", "r", "c">>)>>,
       <<<<"f", "i", "l", "e", "s">>, <<"f", "i", "l", "e", "s">>, JArr(<<JStr(<<"s", "r", "c">>)>>)>>,
       <<<<"i", "n", "c", "l", "u", "d", "e">>, <<"i", "n", "c", "l", "u", "d", "e">>, JArr(<<JStr(<<"s", "r", "c">>)>>)>>,
       <<<<"r", "e", "f", "e", "r", "e", "n", "c", "e", "s">>, <<"r", "e", "f", "e", "r", "e", "n", "c", "e", "s">>, JBool(TRUE)>>,
       <<<<"t", "y", "p", "e", "_", "a", "c", "q", "u", "i", "s", "i", "t", "i", "o", "n">>, <<"t", "y", "p", "e", "A", "c", "q", "u", "i", "s", "i", "t", "i", "o", "n">>, JBool(TRUE)>>,
       <<<<"c", "o", "m", "p", "i", "l", "e", "r", "_", "o", "p", "t", "i", "o", "n", "s">>, <<"c", "o", "m", "p", "i", "l", "e", "r", "O", "p", "t", "i", "o", "n", "s">>, JObj(<<>>)>> >>

\* each CompilerOptions field, likewise
CompilerOptionNames ==
    << <<<<"a", "l", "l", "o", "w", "_", "j", "s">>, <<"a", "l", "l", "o", "w", "J", "s">>, JBool(TRUE)>>,
       <<<<"c", "h", "e", "c", "k", "_", "j", "s">>, <<"c", "h", "e", "c", "k", "J", "s">>, JBool(TRUE)>>,
       <<<<"c", "o", "m", "p", "o", "s", "i", "t", "e">>, <<"c", "o", "m", "p", "o", "s", "i", "t", "e">>, JBool(TRUE)>>,
       <<<<"d", "e", "c", "l", "a", "r", "a", "t", "i", "o", "n">>, <<"d", "e", "c", "l", "a", "r", "a", "t", "i", "o", "n">>, JBool(TRUE)>>,
       <<<<"d", "e", "c", "l", "a", "r", "a", "t", "i", "o", "n", "_", "m", "a", "p">>, <<"d", "e", "c", "l", "a", "r", "a", "t", "i", "o", "n", "M", "a", "p">>, JBool(TRUE)>>,
       <<<<"d", "o", "w", "n", "l", "e", "v", "e", "l", "_", "i", "t", "e", "r", "a", "t", "i", "o", "n">>, <<"d", "o", "w", "n", "l", "e", "v", "e", "l", "I", "t", "e", "r", "a", "t", "i", "o", "n">>, JBool(TRUE)>>,
       <<<<"i", "m", "p", "o", "r", "t", "_", "h", "e", "l", "p", "e", "r", "s">>, <<"i", "m", "p", "o", "r", "t", "H", "e", "l", "p", "e", "r", "s">>, JBool(TRUE)>>,
       <<<<"i", "n", "c", "r", "e", "m", "e", "n", "t", "a", "l">>, <<"i", "n", "c", "r", "e", "m", "e", "n", "t", "a", "l">>, JBool(TRUE)>>,
       <<<<"i", "s", "o", "l", "a", "t", "e", "d", "_", "m", "o", "d", "u", "l", "e", "s">>, <<"i", "s", "o", "l", "a", "t", "e", "d", "M", "o", "d", "u", "l", "e", "s">>, JBool(TRUE)>>,
       <<<<"j", "s", "x">>, <<"j", "s", "x">>, JStr(<<"r", "e", "a", "c", "t">>)>>,
       <<<<"l", "i", "b">>, <<"l", "i", "b">>, JArr(<<JStr(<<"E", "S", "5">>)>>)>>,
       <<<<"m", "o", "d", "u", "l", "e">>, <<"m", "o", "d", "u", "l", "e">>, JStr(<<"C", "O", "M", "M", "O", "N", "J", "S">>)>>,
       <<<<"n", "o", "_", "e", "m", "i", "t">>, <<"n", "o", "E", "m", "i", "t">>, JBool(TRUE)>>,
       <<<<"o", "u", "t", "_", "d", "i", "r">>, <<"o", "u", "t", "D", "i", "r">>, JStr(<<"s", "r", "c">>)>>,
       <<<<"o", "u", "t", "_", "f", "i", "l", "e">>, <<"o", "u", "t", "F", "i", "l", "e">>, JStr(<<"s", "r", "c">>)>>,
       <<<<"r", "e", "m", "o", "v", "e", "_", "c", "o", "m", "m", "e", "n", "t", "s">>, <<"r", "e", "m", "o", "v", "e", "C", "o", "m", "m", "e", "n", "t", "s">>, JBool(TRUE)>>,
       <<<<"r", "o", "o", "t", "_", "d", "i", "r">>, <<"r", "o", "o", "t", "D", "i", "r">>, JStr(<<"s", "r", "c">>)>>,
       <<<<"s", "o", "u", "r", "c", "e", "_", "m", "a", "p">>, <<"s", "o", "u", "r", "c", "e", "M", "a", "p">>, JBool(TRUE)>>,
       <<<<"t", "a", "r", "g", "e", "t">>, <<"t", "a", "r", "g", "e", "t">>, JStr(<<"E", "S", "5">>)>>,
       <<<<"t", "s", "_", "b", "u", "i", "l", "d", "_", "i", "n", "f", "o", "_", "f", "i", "l", "e">>, <<"t", "s", "B", "u", "i", "l", "d", "I", "n", "f", "o", "F", "i", "l", "e">>, JStr(<<"s", "r", "c">>)>>,
       <<<<"a", "l", "w", "a", "y", "s", "_", "s", "t", "r", "i", "c", "t">>, <<"a", "l", "w", "a", "y", "s", "S", "t", "r", "i", "c", "t">>, JBool(TRUE)>>,
       <<<<"n", "o", "_", "i", "m", "p", "l", "i", "c", "i", "t", "_", "a", "n", "y">>, <<"n", "o", "I", "m", "p", "l", "i", "c", "i", "t", "A", "n", "y">>, JBool(TRUE)>>,
       <<<<"n", "o", "_", "i", "m", "p", "l", "i", "c", "i", "t", "_", "t", "h", "i", "s">>, <<"n", "o", "I", "m", "p", "l", "i", "c", "i", "t", "T", "h", "i", "s">>, JBool(TRUE)>>,
       <<<<"s", "t", "r", "i", "c", "t">>, <<"s", "t", "r", "i", "c", "t">>, JBool(TRUE)>>,
       <<<<"s", "t", "r", "i", "c", "t", "_", "b", "i", "n", "d", "_", "c", "a", "l", "l", "_", "a", "p", "p", "l", "y">>, <<"s", "t", "r", "i", "c", "t", "B", "i", "n", "d", "C", "a", "l", "l", "A", "p", "p", "l", "y">>, JBool(TRUE)>>,
       <<<<"s", "t", "r", "i", "c", "t", "_", "f", "u", "n", "c", "t", "i", "o", "n", "_", "t", "y", "p", "e", "s">>, <<"s", "t", "r", "i", "c", "t", "F", "u", "n", "c", "t", "i", "o", "n", "T", "y", "p", "e", "s">>, JBool(TRUE)>>,
       <<<<"s", "t", "r", "i", "c", "t", "_", "n", "u", "l", "l", "_", "c", "h", "e", "c", "k", "s">>, <<"s", "t", "r", "i", "c", "t", "N", "u", "l", "l", "C", "h", "e", "c", "k", "s">>, JBool(TRUE)>>,
       <<<<"s", "t", "r", "i", "c", "t", "_", "p", "r", "o", "p", "e", "r", "t", "y", "_", "i", "n", "i", "t", "i", "a", "l", "i", "z", "a", "t", "i", "o", "n">>, <<"s", "t", "r", "i", "c", "t", "P", "r", "o", "p", "e", "r", "t", "y", "I", "n", "i", "t", "i", "a", "l", "i", "z", "a", "t", "i", "o", "n">>, JBool(TRUE)>>,
       <<<<"a", "l", "l", "o", "w", "_", "s", "y", "n", "t", "h", "e", "t", "i", "c", "_", "d", "e", "f", "a", "u", "l", "t", "_", "i", "m", "p", "o", "r", "t", "s">>, <<"a", "l", "l", "o", "w", "S", "y", "n", "t", "h", "e", "t", "i", "c", "D", "e", "f", "a", "u", "l", "t", "I", "m", "p", "o", "r", "t", "s">>, JBool(TRUE)>>,
       <<<<"a", "l", "l", "o", "w", "_", "u", "m", "d", "_", "g", "l", "o", "b", "a", "l", "_", "a", "c", "c", "e", "s", "s">>, <<"a", "l", "l", "o", "w", "U", "m", "d", "G", "l", "o", "b", "a", "l", "A", "c", "c", "e", "s", "s">>, JBool(TRUE)>>,
       <<<<"b", "a", "s", "e", "_", "u", "r", "l">>, <<"b", "a", "s", "e", "U", "r", "l">>, JBool(TRUE)>>,
       <<<<"e", "s", "_", "m", "o", "d", "u", "l", "e", "_", "i", "n", "t", "e", "r", "o", "p">>, <<"e", "s", "M", "o", "d", "u", "l", "e", "I", "n", "t", "e", "r", "o", "p">>, JBool(TRUE)>>,
       <<<<"m", "o", "d", "u", "l", "e", "_", "r", "e", "s", "o", "l", "u", "t", "i", "o", "n">>, <<"m", "o", "d", "u", "l", "e", "R", "e", "s", "o", "l", "u", "t", "i", "o", "n">>, JStr(<<"n", "o", "d", "e">>)>>,
       <<<<"p", "a", "t", "h", "s">>, <<"p", "a", "t", "h", "s">>, JObj(<< <<<<"a">>, JArr(<<JStr(<<"b">>)>>)>> >>)>>,
       <<<<"p", "r", "e", "s", "e", "r", "v", "e", "_", "s", "y", "m", "l", "i", "n", "k", "s">>, <<"p", "r", "e", "s", "e", "r", "v", "e", "S", "y", "m", "l", "i", "n", "k", "s">>, JBool(TRUE)>>,
       <<<<"r", "o", "o", "t", "_", "d", "i", "r", "s">>, <<"r", "o", "o", "t", "D", "i", "r", "s">>, JArr(<<JStr(<<"s", "r", "c">>)>>)>>,
       <<<<"t", "y", "p", "e", "_", "r", "o", "o", "t", "s">>, <<"t", "y", "p", "e", "R", "o", "o", "t", "s">>, JArr(<<JStr(<<"s", "r", "c">>)>>)>>,
       <<<<"t", "y", "p", "e", "s">>, <<"t", "y", "p", "e", "s">>, JArr(<<JStr(<<"s", "r", "c">>)>>)>>,
       <<<<"i", "n", "l", "i", "n", "e", "_", "s", "o", "u", "r", "c", "e", "_", "m", "a", "p">>, <<"i", "n", "l", "i", "n", "e", "S", "o", "u", "r", "c", "e", "M", "a", "p">>, JBool(TRUE)>>,
       <<<<"i", "n", "l", "i", "n", "e", "_", "s", "o", "u", "r", "c", "e", "s">>, <<"i", "n", "l", "i", "n", "e", "S", "o", "u", "r", "c", "e", "s">>, JBool(TRUE)>>,
       <<<<"m", "a", "p", "_", "r", "o", "o", "t">>, <<"m", "a", "p", "R", "o", "o", "t">>, JStr(<<"s", "r", "c">>)>>,
       <<<<"s", "o", "u", "r", "c", "e", "_", "r", "o", "o", "t">>, <<"s", "o", "u", "r", "c", "e", "R", "o", "o", "t">>, JStr(<<"s", "r", "c">>)>>,
       <<<<"n", "o", "_", "f", "a", "l", "l", "t", "h", "r", "o", "u", "g", "h", "_", "c", "a", "s", "e", "s", "_", "i", "n", "_", "s", "w", "i", "t", "c", "h">>, <<"n", "o", "F", "a", "l", "l", "t", "h", "r", "o", "u", "g", "h", "C", "a", "s", "e", "s", "I", "n", "S", "w", "i", "t", "c", "h">>, JBool(TRUE)>>,
       <<<<"n", "o", "_", "i", "m", "p", "l", "i", "c", "i", "t", "_", "r", "e", "t", "u", "r", "n", "s">>, <<"n", "o", "I", "m", "p", "l", "i", "c", "i", "t", "R", "e", "t", "u", "r", "n", "s">>, JBool(TRUE)>>,
       <<<<"n", "o", "_", "p", "r", "o", "p", "e", "r", "t", "y", "_", "a", "c", "c", "e", "s", "s", "_", "f", "r", "o", "m", "_", "i", "n", "d", "e", "x", "_", "s", "i", "g", "n", "a", "t", "u", "r", "e">>, <<"n", "o", "P", "r", "o", "p", "e", "r", "t", "y", "A", "c", "c", "e", "s", "s", "F", "r", "o", "m", "I", "n", "d", "e", "x", "S", "i", "g", "n", "a", "t", "u", "r", "e">>, JBool(TRUE)>> >>

\* each Lib variant with its token (TypeScript's library names)
LibTokens ==
    << <<<<"E", "s", "5">>, <<"E", "s", "5">>>>,
       <<<<"E", "s", "2", "0", "1", "5">>, <<"E", "s", "2", "0", "1", "5">>>>,
       <<<<"E", "s", "6">>, <<"E", "s", "6">>>>,
       <<<<"E", "s", "2", "0", "1", "6">>, <<"E", "s", "2", "0", "1", "6">>>>,
       <<<<"E", "s", "7">>, <<"E", "s", "7">>>>,
       <<<<"E", "s", "2", "0", "1", "7">>, <<"E", "s", "2", "0", "1", "7">>>>,
       <<<<"E", "s", "2", "0", "1", "8">>, <<"E", "s", "2", "0", "1", "8">>>>,
       <<<<"E", "s", "2", "0", "1", "9">>, <<"E", "s", "2", "0", "1", "9">>>>,
       <<<<"E", "s", "2", "0", "2", "0">>, <<"E", "s", "2", "0", "2", "0">>>>,
       <<<<"E", "s", "N", "e", "x", "t">>, <<"E", "s", "N", "e", "x", "t">>>>,
       <<<<"D", "o", "m">>, <<"D", "o", "m">>>>,
       <<<<"W", "e", "b", "W", "o", "r", "k", "e", "r">>, <<"W", "e", "b", "W", "o", "r", "k", "e", "r">>>>,
       <<<<"S", "c", "r", "i", "p", "t", "H", "o", "s", "t">>, <<"S", "c", "r", "i", "p", "t", "H", "o", "s", "t">>>>,
       <<<<"D", "o", "m", "I", "t", "e", "r", "a", "b", "l", "e">>, <<"D", "o", "m", ".", "I", "t", "e", "r", "a", "b", "l", "e">>>>,
       <<<<"E", "s", "2", "0", "1", "5", "C", "o", "r", "e">>, <<"E", "s", "2", "0", "1", "5", ".", "C", "o", "r", "e">>>>,
       <<<<"E", "s", "2", "0", "1", "5", "G", "e", "n", "e", "r", "a", "t", "o", "r">>, <<"E", "s", "2", "0", "1", "5", ".", "G", "e", "n", "e", "r", "a", "t", "o", "r">>>>,
       <<<<"E", "s", "2", "0", "1", "5", "I", "t", "e", "r", "a", "b", "l", "e">>, <<"E", "s", "2", "0", "1", "5", ".", "I", "t", "e", "r", "a", "b", "l", "e">>>>,
       <<<<"E", "s", "2", "0", "1", "5", "P", "r", "o", "m", "i", "s", "e">>, <<"E", "s", "2", "0", "1", "5", ".", "P", "r", "o", "m", "i", "s", "e">>>>,
       <<<<"E", "s", "2", "0", "1", "5", "P", "r", "o", "x", "y">>, <<"E", "s", "2", "0", "1", "5", ".", "P", "r", "o", "x", "y">>>>,
       <<<<"E", "s", "2", "0", "1", "5", "R", "e", "f", "l", "e", "c", "t">>, <<"E", "s", "2", "0", "1", "5", ".", "R", "e", "f", "l", "e", "c", "t">>>>,
       <<<<"E", "s", "2", "0", "1", "5", "S", "y", "m", "b", "o", "l">>, <<"E", "s", "2", "0", "1", "5", ".", "S", "y", "m", "b", "o", "l">>>>,
       <<<<"E", "s", "2", "0", "1", "5", "S", "y", "m", "b", "o", "l", "W", "e", "l", "l", "K", "n", "o", "w", "n">>, <<"E", "s", "2", "0", "1", "5", ".", "S", "y", "m", "b", "o", "l", ".", "W", "e", "l", "l", "K", "n", "o", "w", "n">>>>,
       <<<<"E", "s", "2", "0", "1", "6", "A", "r", "r", "a", "y", "I", "n", "c", "l", "u", "d", "e">>, <<"E", "s", "2", "0", "1", "6", ".", "A", "r", "r", "a", "y", ".", "I", "n", "c", "l", "u", "d", "e">>>>,
       <<<<"E", "s", "2", "0", "1", "7", "O", "b", "j", "e", "c", "t">>, <<"E", "s", "2", "0", "1", "7", ".", "O", "b", "j", "e", "c", "t">>>>,
       <<<<"E", "s", "2", "0", "1", "7", "I", "n", "t", "l">>, <<"E", "s", "2", "0", "1", "7", ".", "I", "n", "t", "l">>>>,
       <<<<"E", "s", "2", "0", "1", "7", "S", "h", "a", "r", "e", "d", "M", "e", "m", "o", "r", "y">>, <<"E", "s", "2", "0", "1", "7", ".", "S", "h", "a", "r", "e", "d", "M", "e", "m", "o", "r", "y">>>>,
       <<<<"E", "s", "2", "0", "1", "7", "S", "t", "r", "i", "n", "g">>, <<"E", "s", "2", "0", "1", "7", ".", "S", "t", "r", "i", "n", "g">>>>,
       <<<<"E", "s", "2", "0", "1", "7", "T", "y", "p", "e", "d", "A", "r", "r", "a", "y", "s">>, <<"E", "s", "2", "0", "1", "7", ".", "T", "y", "p", "e", "d", "A", "r", "r", "a", "y", "s">>>>,
       <<<<"E", "s", "2", "0", "1", "8", "I", "n", "t", "l">>, <<"E", "s", "2", "0", "1", "8", ".", "I", "n", "t", "l">>>>,
       <<<<"E", "s", "2", "0", "1", "8", "P", "r", "o", "m", "i", "s", "e">>, <<"E", "s", "2", "0", "1", "8", ".", "P", "r", "o", "m", "i", "s", "e">>>>,
       <<<<"E", "s", "2", "0", "1", "8", "R", "e", "g", "E", "x", "p">>, <<"E", "s", "2", "0", "1", "8", ".", "R", "e", "g", "E", "x", "p">>>>,
       <<<<"E", "s", "2", "0", "1", "9", "A", "r", "r", "a", "y">>, <<"E", "s", "2", "0", "1", "9", ".", "A", "r", "r", "a", "y">>>>,
       <<<<"E", "s", "2", "0", "1", "9", "O", "b", "j", "e", "c", "t">>, <<"E", "s", "2", "0", "1", "9", ".", "O", "b", "j", "e", "c", "t">>>>,
       <<<<"E", "s", "2", "0", "1", "9", "S", "t", "r", "i", "n", "g">>, <<"E", "s", "2", "0", "1", "9", ".", "S", "t", "r", "i", "n", "g">>>>,
       <<<<"E", "s", "2", "0", "1", "9", "S", "y", "m", "b", "o", "l">>, <<"E", "s", "2", "0", "1", "9", ".", "S", "y", "m", "b", "o", "l">>>>,
       <<<<"E", "s", "2", "0", "2", "0", "S", "t", "r", "i", "n", "g">>, <<"E", "s", "2", "0", "2", "0", ".", "S", "t", "r", "i", "n", "g">>>>,
       <<<<"E", "s", "2", "0", "2", "0", "S", "y", "m", "b", "o", "l", "W", "e", "l", "l", "k", "n", "o", "w", "n">>, <<"E", "s", "2", "0", "2", "0", ".", "S", "y", "m", "b", "o", "l", ".", "W", "e", "l", "l", "K", "n", "o", "w", "n">>>>,
       <<<<"E", "s", "N", "e", "x", "t", "A", "s", "y", "n", "c", "I", "t", "e", "r", "a", "b", "l", "e">>, <<"E", "s", "N", "e", "x", "t", ".", "A", "s", "y", "n", "c", "I", "t", "e", "r", "a", "b", "l", "e">>>>,
       <<<<"E", "s", "N", "e", "x", "t", "A", "r", "r", "a", "y">>, <<"E", "s", "N", "e", "x", "t", ".", "A", "r", "r", "a", "y">>>>,
       <<<<"E", "s", "N", "e", "x", "t", "I", "n", "t", "l">>, <<"E", "s", "N", "e", "x", "t", ".", "I", "n", "t", "l">>>>,
       <<<<"E", "s", "N", "e", "x", "t", "S", "y", "m", "b", "o", "l">>, <<"E", "s", "N", "e", "x", "t", ".", "S", "y", "m", "b", "o", "l">>>> >>

Obj1(k, v) == JObj(<< <<k, v>> >>)

Obj2(k1, v1, k2, v2) == JObj(<< <<k1, v1>>, <<k2, v2>> >>)

Strs(toks) == JArr([i \in 1..Len(toks) |-> JStr(toks[i])])

InCompilerOptions(k, v) == Obj1(<<"c", "o", "m", "p", "i", "l", "e", "r", "O", "p", "t", "i", "o", "n", "s">>, Obj1(k, v))

to_lowercase(s) == [i \in 1..Len(s) |-> to_ascii_lowercase(s[i])]

\* a token as written, in lowercase and in uppercase
Spellings(tok) == {tok, to_lowercase(tok), to_uppercase(tok)}

Range(s) == {s[n] : n \in 1..Len(s)}

TargetDoc(tok) == InCompilerOptions(<<"t", "a", "r", "g", "e", "t">>, JStr(tok))

LibDoc(tok) == InCompilerOptions(<<"l", "i", "b">>, JArr(<<JStr(tok)>>))

ModuleDoc(tok) == InCompilerOptions(<<"m", "o", "d", "u", "l", "e">>, JStr(tok))

ModuleResolutionDoc(tok) == InCompilerOptions(<<"m", "o", "d", "u", "l", "e", "R", "e", "s", "o", "l", "u", "t", "i", "o", "n">>, JStr(tok))

JsxDoc(tok) == InCompilerOptions(<<"j", "s", "x">>, JStr(tok))

\* each Jsx variant with its token
JsxTokens ==
    << <<<<"R", "e", "a", "c", "t">>, <<"r", "e", "a", "c", "t">>>>,
       <<ReactJsx, <<"r", "e", "a", "c", "t", "-", "j", "s", "x">>>>,
       <<<<"R", "e", "a", "c", "t", "J", "s", "x", "d", "e", "v">>, <<"r", "e", "a", "c", "t", "-", "j", "s", "x", "d", "e", "v">>>>,
       <<<<"R", "e", "a", "c", "t", "N", "a", "t", "i", "v", "e">>, <<"r", "e", "a", "c", "t", "-", "n", "a", "t", "i", "v", "e">>>>,
       <<<<"P", "r", "e", "s", "e", "r", "v", "e">>, <<"p", "r", "e", "s", "e", "r", "v", "e">>>> >>

\* tokens outside every vocabulary
UnknownTokens == {<<"E", "S", "2", "0", "9", "9">>, <<"e", "s", "2", "0", "9", "9">>, <<"S", "o", "l", "i", "d">>, <<>>}

TargetProbe == UNION {Spellings(t) : t \in Range(Target_variants)} \cup UnknownTokens

LibProbe == UNION {Spellings(r[2]) : r \in Range(LibTokens)} \cup UnknownTokens

ModuleProbe == UNION {Spellings(t) : t \in Range(Module_variants)} \cup UnknownTokens

ModuleResolutionProbe == UNION {Spellings(t) : t \in {Node, Classic}} \cup UnknownTokens

JsxProbe ==
    UNION {Spellings(r[2]) : r \in Range(JsxTokens)}
    \cup Range(Jsx_variants) \cup {<<"r", "e", "a", "c", "t", "_", "j", "s", "x">>, <<"r", "e", "a", "c", "t", "J", "s", "x">>} \cup UnknownTokens

EnumDocs ==
    {TargetDoc(t) : t \in TargetProbe}
    \cup {LibDoc(t) : t \in LibProbe}
    \cup {InCompilerOptions(<<"l", "i", "b">>, Strs(<<<<"d", "o", "m">>, <<"E", "S", "2", "0", "9", "9">>>>)),
          InCompilerOptions(<<"l", "i", "b">>, Strs(<<<<"d", "o", "m">>, <<"e", "s", "6">>>>)),
          InCompilerOptions(<<"l", "i", "b">>, JArr(<<>>))}
    \cup {ModuleDoc(t) : t \in ModuleProbe}
    \cup {ModuleResolutionDoc(t) : t \in ModuleResolutionProbe}
    \cup {InCompilerOptions(module_resolution, JStr(t)) : t \in ModuleResolutionProbe}
    \cup {JsxDoc(t) : t \in JsxProbe}
    \cup {InCompilerOptions(<<"j", "s", "x">>, v) :
            v \in {Obj1(<<"r", "e", "a", "c", "t">>, JNull), Obj1(<<"r", "e", "a", "c", "t">>, JBool(TRUE)), JBool(TRUE)}}

TypeAcquisitionDoc(v) == Obj1(<<"t", "y", "p", "e", "A", "c", "q", "u", "i", "s", "i", "t", "i", "o", "n">>, v)

\* the structured shape of the documentation: enable, include, exclude, disable
TypeAcquisitionObjects ==
    {JObj(<< <<<<"e", "n", "a", "b", "l", "e">>, JBool(b)>> >> \o inc \o exc \o dis) :
        b \in BOOLEAN,
        inc \in {<<>>, << <<<<"i", "n", "c", "l", "u", "d", "e">>, Strs(<<<<"j", "q", "u", "e", "r", "y">>>>)>> >>},
        exc \in {<<>>, << <<<<"e", "x", "c", "l", "u", "d", "e">>, Strs(<<<<"l", "o", "d", "a", "s", "h">>, <<"r", "e", "a", "c", "t">>>>)>> >>},
        dis \in {<<>>, << <<<<"d", "i", "s", "a", "b", "l", "e", "F", "i", "l", "e", "n", "a", "m", "e", "B", "a", "s", "e", "d", "T", "y", "p", "e", "A", "c", "q", "u", "i", "s", "i", "t", "i", "o", "n">>, JBool(TRUE)>> >>,
                 << <<disable_filename_based_type_acquisition, JBool(TRUE)>> >>}}

TypeAcquisitionValues ==
    {JBool(TRUE), JBool(FALSE), JNull, JNum(<<"1">>), JStr(<<"B", "o", "o", "l">>), JStr(<<"x">>),
     JArr(<<>>), JObj(<<>>),
     Obj1(<<"i", "n", "c", "l", "u", "d", "e">>, Strs(<<<<"j", "q", "u", "e", "r", "y">>>>)),
     Obj1(<<"e", "n", "a", "b", "l", "e">>, JStr(<<"y", "e", "s">>)),
     Obj1(Bool, JBool(TRUE)), Obj1(Bool, JBool(FALSE)), Obj1(Bool, JNum(<<"1">>)),
     Obj1(Object, JObj(<<>>)),
     Obj1(Object, JArr(<<JBool(TRUE), JNull, Strs(<<<<"l", "o", "d", "a", "s", "h">>>>), JNull>>)),
     Obj2(Bool, JBool(TRUE), <<"z", "z", "z">>, JNum(<<"1">>)),
     Obj2(<<"z", "z", "z">>, JNum(<<"1">>), Bool, JBool(TRUE))}
    \cup TypeAcquisitionObjects
    \cup {Obj1(Object, o) : o \in TypeAcquisitionObjects}

TypeAcquisitionDocs == {TypeAcquisitionDoc(v) : v \in TypeAcquisitionValues}

ReferencesDoc(v) == Obj1(<<"r", "e", "f", "e", "r", "e", "n", "c", "e", "s">>, v)

ReferenceElements ==
    {Obj1(<<"p", "a", "t", "h">>, JStr(<<".", ".", "/", "l", "i", "b">>)),
     Obj2(<<"p", "a", "t", "h">>, JStr(<<"a">>), <<"p", "r", "e", "p", "e", "n", "d">>, JBool(TRUE)),
     Obj2(<<"p", "r", "e", "p", "e", "n", "d">>, JBool(FALSE), <<"p", "a", "t", "h">>, JStr(<<"b">>)),
     Obj2(<<"p", "a", "t", "h">>, JStr(<<"a">>), <<"p", "r", "e", "p", "e", "n", "d">>, JNull),
     Obj1(<<"p", "r", "e", "p", "e", "n", "d">>, JBool(TRUE)),
     JObj(<<>>),
     Obj1(<<"p", "a", "t", "h">>, JNum(<<"1">>)),
     Obj2(<<"p", "a", "t", "h">>, JStr(<<"a">>), <<"p", "r", "e", "p", "e", "n", "d">>, JStr(<<"x">>)),
     Obj2(<<"p", "a", "t", "h">>, JStr(<<"a">>), <<"p", "a", "t", "h">>, JStr(<<"b">>)),
     JArr(<<JStr(<<"a">>), JBool(TRUE)>>),
     JNum(<<"7">>)}

ReferencesValues ==
    {JBool(TRUE), JBool(FALSE), JNull, JNum(<<"1">>), JStr(<<"x">>), JObj(<<>>),
     Obj1(<<"p", "a", "t", "h">>, JStr(<<"a">>))}
    \cup {JArr(xs) : xs \in UNION {[1..k -> ReferenceElements] : k \in 0..MaxRefs}}

ReferencesDocs == {ReferencesDoc(v) : v \in ReferencesValues}

OptionDocs ==
    {Obj1(r[2], r[3]) : r \in Range(DocumentOptions)}
    \cup {Obj1(r[1], r[3]) : r \in Range(DocumentOptions)}
    \cup {InCompilerOptions(r[2], r[3]) : r \in Range(CompilerOptionNames)}
    \cup {InCompilerOptions(r[1], r[3]) : r \in Range(CompilerOptionNames)}
    \cup {InCompilerOptions(r[1], JNull) : r \in Range(CompilerOptionNames)}
    \cup {InCompilerOptions(base_url, JStr(<<"s", "r", "c">>)),
          InCompilerOptions(strict, JNum(<<"1">>)),
          InCompilerOptions(types, JStr(<<"n", "o", "d", "e">>)),
          Obj1(<<"c", "o", "m", "p", "i", "l", "e", "r", "O", "p", "t", "i", "o", "n", "s">>, JBool(TRUE)),
          Obj1(<<"i", "n", "c", "l", "u", "d", "e">>, JStr(<<"s", "r", "c">>)),
          Obj2(<<"e", "x", "t", "e", "n", "d", "s">>, JStr(<<"a">>), <<"e", "x", "t", "e", "n", "d", "s">>, JStr(<<"b">>))}

EmptyDocs ==
    {JObj(<<>>), Obj1(<<"c", "o", "m", "p", "i", "l", "e", "r", "O", "p", "t", "i", "o", "n", "s">>, JObj(<<>>)),
     JNull, JBool(TRUE), JStr(<<"x">>), JArr(<<>>),
     JArr(<<JNull, JNull, JNull, JNull, JNull, JNull, JNull>>)}

\* keys the schema does not have, and values of every JSON kind
UnknownKeys == {<<"z", "z", "z">>, <<"$", "s", "c", "h", "e", "m", "a">>}

UnknownValues ==
    {JNull, JBool(FALSE), JNum(<<"4", "2">>), JStr(<<"x">>), JStr(<<"a", ",", "}">>),
     JArr(<<JNum(<<"1">>), JObj(<<>>)>>), Obj1(<<"p", "a", "t", "h">>, JNum(<<"0">>))}

\* documents that use every nesting level
FullDoc(ta, k, v) ==
    JObj(<< <<<<"e", "x", "t", "e", "n", "d", "s">>, JStr(<<".", "/", "b", "a", "s", "e">>)>>,
            <<<<"r", "e", "f", "e", "r", "e", "n", "c", "e", "s">>, JArr(<<Obj1(<<"p", "a", "t", "h">>, JStr(<<".", ".", "/", "l", "i", "b">>)) >>)>>,
            <<<<"t", "y", "p", "e", "A", "c", "q", "u", "i", "s", "i", "t", "i", "o", "n">>, ta>>,
            <<<<"c", "o", "m", "p", "i", "l", "e", "r", "O", "p", "t", "i", "o", "n", "s">>, Obj2(<<"j", "s", "x">>, JStr(<<"r", "e", "a", "c", "t", "-", "j", "s", "x">>), k, v)>> >>)

FullDocs ==
    {FullDoc(ta, kv[1], kv[2]) :
        ta \in {JNull, Obj1(Object, Obj1(<<"e", "n", "a", "b", "l", "e">>, JBool(TRUE))),
                Obj1(<<"e", "n", "a", "b", "l", "e">>, JBool(TRUE))},
        kv \in {<<strict, JBool(TRUE)>>, <<<<"n", "o", "E", "m", "i", "t">>, JBool(TRUE)>>,
                <<<<"b", "a", "s", "e", "U", "r", "l">>, JStr(<<"s", "r", "c">>)>>}}

HasKey(o, k) == Kind(o) = "obj" /\ \E i \in 1..Len(o[2]) : o[2][i][1] = k

\* the value of the first member k of object o
Member(o, k) == o[2][Min({i \in 1..Len(o[2]) : o[2][i][1] = k})][2]

Count(o, k) == Cardinality({i \in 1..Len(o[2]) : o[2][i][1] = k})

Places == {"top", "compilerOptions", "references", "typeAcquisition"}

AddMember(o, k, v) == JObj(Append(o[2], <<k, v>>))

\* object d with member `name` replaced by f(member)
WithMember(d, name, new) ==
    JObj([i \in 1..Len(d[2]) |->
            IF d[2][i][1] = name THEN <<name, new>> ELSE d[2][i]])

\* document d with the member k: v added at a place
WithKey(d, place, k, v) ==
    CASE place = "top" -> AddMember(d, k, v)
      [] place = "compilerOptions" ->
            WithMember(d, <<"c", "o", "m", "p", "i", "l", "e", "r", "O", "p", "t", "i", "o", "n", "s">>,
                       AddMember(Member(d, <<"c", "o", "m", "p", "i", "l", "e", "r", "O", "p", "t", "i", "o", "n", "s">>), k, v))
      [] place = "references" ->
            WithMember(d, <<"r", "e", "f", "e", "r", "e", "n", "c", "e", "s">>,
                JArr([i \in 1..Len(Member(d, <<"r", "e", "f", "e", "r", "e", "n", "c", "e", "s">>)[2]) |->
                        AddMember(Member(d, <<"r", "e", "f", "e", "r", "e", "n", "c", "e", "s">>)[2][i], k, v)]))
      [] place = "typeAcquisition" ->
            IF Kind(Member(d, <<"t", "y", "p", "e", "A", "c", "q", "u", "i", "s", "i", "t", "i", "o", "n">>)) = "obj"
            THEN WithMember(d, <<"t", "y", "p", "e", "A", "c", "q", "u", "i", "s", "i", "t", "i", "o", "n">>,
                            AddMember(Member(d, <<"t", "y", "p", "e", "A", "c", "q", "u", "i", "s", "i", "t", "i", "o", "n">>), k, v))
            ELSE d

\* the documents of every nesting level with one unknown key added
UnknownKeyDocs ==
    {WithKey(d, place, k, v) :
        d \in FullDocs, place \in Places, k \in UnknownKeys, v \in UnknownValues}

\* string contents that look like the decorations the preprocessing removes
TrickyStrings ==
    {<<"b", "a", "s", "e">>, <<"a", ",", "}">>, <<"a", ",", " ", "}">>, <<",", "}", "}">>, <<"a", ",", "]">>, <<"/", "/", "x">>, <<"/", "*", "x", "*", "/">>, <<"a", "/", "b">>,
     <<"a", "\"", "b">>, <<"a", "\\">>, <<"a", "\n", "b">>}

StringDocs ==
    {Obj1(<<"e", "x", "t", "e", "n", "d", "s">>, JStr(s)) : s \in TrickyStrings}
    \cup {Obj1(s, JBool(TRUE)) : s \in TrickyStrings}
    \cup {InCompilerOptions(paths, Obj1(s, Strs(<<s>>))) : s \in TrickyStrings}
    \cup {Obj1(<<"i", "n", "c", "l", "u", "d", "e">>, Strs(<<<<"s", "r", "c", "/", "*", "*", "/", "*">>, s>>)) : s \in TrickyStrings}

\* keys and lists of a paths mapping, those of the test among them
PathKeys == {<<"t", "e", "s", "t", "s", "/", "*">>, <<"b", "l", "a", "h">>, <<"a", ",", "}">>}

PathLists ==
    {Strs(xs) : xs \in {<<>>, <<<<"t", "e", "s", "t", "s", "/", "*">>>>, <<<<"b", "l", "o", "o", "p">>>>, <<<<"t", "e", "s", "t", "s", "/", "*">>, <<"b", "l", "o", "o", "p">>>>,
                        <<<<"b", "l", "o", "o", "p">>, <<"t", "e", "s", "t", "s", "/", "*">>>>, <<<<"a", ",", " ", "}">>>>}}

\* objects mapping up to MaxPaths distinct keys to lists of strings
PathsObjects ==
    {JObj(kvs) : kvs \in
        {s \in UNION {[1..k -> PathKeys \X PathLists] : k \in 0..MaxPaths} :
            \A i, j \in 1..Len(s) : s[i][1] = s[j][1] => i = j}}

\* compilerOptions with the members `base` before the paths mapping o
PathsDoc(base, o) == Obj1(<<"c", "o", "m", "p", "i", "l", "e", "r", "O", "p", "t", "i", "o", "n", "s">>, JObj(base \o << <<paths, o>> >>))

\* without and, as in the test, with a string-valued baseUrl
PathsBases == {<<>>, << <<<<"b", "a", "s", "e", "U", "r", "l">>, JStr(<<"s", "r", "c">>)>> >>}

PathsDocs == {PathsDoc(base, o) : base \in PathsBases, o \in PathsObjects}

\* the documents that are also passed with trailing commas
DecoratedDocs ==
    StringDocs \cup FullDocs \cup EmptyDocs
    \cup {InCompilerOptions(strict, JBool(TRUE)),
          Obj1(<<"i", "n", "c", "l", "u", "d", "e">>, Strs(<<<<"s", "r", "c", "/", "*", "*", "/", "*">>>>)),
          Obj1(<<"i", "n", "c", "l", "u", "d", "e">>, JArr(<<>>)),
          ReferencesDoc(JArr(<<Obj1(<<"p", "a", "t", "h">>, JStr(<<".", ".", "/", "l", "i", "b">>))>>)),
          InCompilerOptions(<<"l", "i", "b">>, Strs(<<<<"d", "o", "m">>, <<"e", "s", "6">>>>)),
          InCompilerOptions(paths,
              Obj2(<<"t", "e", "s", "t", "s", "/", "*">>, Strs(<<<<"t", "e", "s", "t", "s", "/", "*">>>>), <<"b", "l", "a", "h">>, Strs(<<<<"b", "l", "o", "o", "p">>>>))),
          Obj1(<<"z", "z", "z">>, JArr(<<JObj(<<>>), JArr(<<>>)>>))}

\* the documents that are also passed with a comment inserted
CommentedDocs ==
    {JObj(<<>>),
     InCompilerOptions(strict, JBool(TRUE)),
     Obj1(<<"i", "n", "c", "l", "u", "d", "e">>, Strs(<<<<"s", "r", "c", "/", "*", "*", "/", "*">>>>)),
     Obj1(<<"e", "x", "t", "e", "n", "d", "s">>, JStr(<<"/", "/", "x">>))}

Docs ==
    EnumDocs \cup TypeAcquisitionDocs \cup ReferencesDocs \cup OptionDocs
    \cup EmptyDocs \cup FullDocs \cup UnknownKeyDocs \cup StringDocs
    \cup PathsDocs \cup DecoratedDocs

-----------------------------------------------------------------------------
(* The state machine: one call of parse_str on one input text.             *)

Pending == <<"Pending">>

Init ==
    /\ doc \in Docs
    /\ edit \in (IF doc \in CommentedDocs
                    THEN Edits(Emit(doc)) \cup CommentEdits(Emit(doc))
                 ELSE IF doc \in DecoratedDocs THEN Edits(Emit(doc))
                 ELSE {NoEdit})
    /\ json = ApplyEdit(Emit(doc), edit)
    /\ pc = "ready"
    /\ replaced = <<>>
    /\ stripped = Pending
    /\ result = Pending

\* pub fn parse_str(json: &str) -> Result<TsConfig, Box<dyn Error>>
ParseStr ==
    /\ pc = "ready"
    /\ replaced' = replace_all(json)
    /\ stripped' = StripComments(replaced')
    /\ result' = from_reader(stripped')
    /\ pc' = "done"
    /\ UNCHANGED <<doc, edit, json>>

Next == ParseStr

Spec == Init /\ [][Next]_vars

-----------------------------------------------------------------------------
(* Reading a result and a document.                                        *)

Done == pc = "done"

\* the call is over and the input was the strict JSON text of doc
Plain == pc = "done" /\ edit = NoEdit

\* field f of the Document of a successful result (None when unset)
DocumentField(r, f) == r[2][f]

\* field f of the CompilerOptions of a successful result; None when
\* compilerOptions itself is unset
CompilerOption(r, f) ==
    IF r[2][compiler_options] = None THEN None
    ELSE r[2][compiler_options][2][f]

\* tok is a case spelling of a token of the vocabulary
Known(vocabulary, tok) ==
    \E t \in vocabulary : to_lowercase(t) = to_lowercase(tok)

-----------------------------------------------------------------------------
(* C1 *)

\* C1: in target, lib and module a string outside the vocabulary parses
\* successfully to a fallback variant that carries the token as written.
C1_UnknownTokenFallsBack ==
    Plain =>
        \A tok \in UnknownTokens :
            /\ doc = TargetDoc(tok) =>
                    /\ IsOk(result)
                    /\ CompilerOption(result, target) = Some(<<"Target", <<"O", "t", "h", "e", "r">>, tok>>)
            /\ doc = LibDoc(tok) =>
                    /\ IsOk(result)
                    /\ CompilerOption(result, lib) = Some(<< <<"Lib", <<"O", "t", "h", "e", "r">>, tok>> >>)
            /\ doc = ModuleDoc(tok) =>
                    /\ IsOk(result)
                    /\ CompilerOption(result, module) = Some(<<"Module", <<"O", "t", "h", "e", "r">>, tok>>)

-----------------------------------------------------------------------------
(* C2 *)

\* C2: every case spelling of the token of a Target, Lib, Module or
\* ModuleResolutionMode variant parses successfully to that variant.
C2_TokensMatchInAnyCase ==
    Plain =>
        /\ \A v \in Range(Target_variants) : \A s \in Spellings(v) :
              doc = TargetDoc(s) =>
                  /\ IsOk(result)
                  /\ CompilerOption(result, target) = Some(<<"Target", v>>)
        /\ \A r \in Range(LibTokens) : \A s \in Spellings(r[2]) :
              doc = LibDoc(s) =>
                  /\ IsOk(result)
                  /\ CompilerOption(result, lib) = Some(<< <<"Lib", r[1]>> >>)
        /\ \A v \in Range(Module_variants) : \A s \in Spellings(v) :
              doc = ModuleDoc(s) =>
                  /\ IsOk(result)
                  /\ CompilerOption(result, module) = Some(<<"Module", v>>)
        /\ \A v \in {Node, Classic} : \A s \in Spellings(v) :
              doc = ModuleResolutionDoc(s) =>
                  /\ IsOk(result)
                  /\ CompilerOption(result, module_resolution)
                        = Some(<<"ModuleResolutionMode", v>>)

-----------------------------------------------------------------------------
(* C3 *)

\* the optional member k of a typeAcquisition object, as the field it sets
Listed(o, k) ==
    IF HasKey(o, k)
    THEN Some([n \in 1..Len(Member(o, k)[2]) |-> Member(o, k)[2][n][2]])
    ELSE None

\* C3: typeAcquisition is a boolean, giving the boolean variant, or an object
\* with a boolean `enable` and optional include / exclude / disable, giving
\* the structured variant with those values; any other kind is an error.
C3_TypeAcquisitionBooleanFirst ==
    Plain =>
        /\ \A b \in BOOLEAN :
              doc = TypeAcquisitionDoc(JBool(b)) =>
                  /\ IsOk(result)
                  /\ DocumentField(result, type_acquisition)
                        = Some(<<"TypeAcquisition", Bool, b>>)
        /\ \A o \in TypeAcquisitionObjects :
              doc = TypeAcquisitionDoc(o) =>
                  /\ IsOk(result)
                  /\ DocumentField(result, type_acquisition)[1] = "Some"
                  /\ LET ta == DocumentField(result, type_acquisition)[2]
                     IN /\ ta[2] = Object
                        /\ ta[3][enable] = Member(o, <<"e", "n", "a", "b", "l", "e">>)[2]
                        /\ ta[3][include] = Listed(o, <<"i", "n", "c", "l", "u", "d", "e">>)
                        /\ ta[3][exclude] = Listed(o, <<"e", "x", "c", "l", "u", "d", "e">>)
        /\ \A v \in {JNum(<<"1">>), JStr(<<"x">>), JArr(<<>>)} :
              doc = TypeAcquisitionDoc(v) => IsErr(result)

-----------------------------------------------------------------------------
(* C4 *)

HasStringPath(e) ==
    /\ HasKey(e, <<"p", "a", "t", "h">>)
    /\ \A i \in 1..Len(e[2]) : e[2][i][1] = <<"p", "a", "t", "h">> => Kind(e[2][i][2]) = "str"

\* an element the corrected claim speaks of: an object with one string path
\* and at most one prepend, which is a boolean or null
WellFormedReference(e) ==
    /\ HasStringPath(e)
    /\ Count(e, <<"p", "a", "t", "h">>) = 1
    /\ Count(e, <<"p", "r", "e", "p", "e", "n", "d">>) <= 1
    /\ HasKey(e, <<"p", "r", "e", "p", "e", "n", "d">>) => Kind(Member(e, <<"p", "r", "e", "p", "e", "n", "d">>)) \in {"bool", "null"}

ReferencesOf(r) == DocumentField(r, references)[2][3]

\* the list a references array of objects is claimed to give
ListsPaths(r, xs) ==
    /\ IsOk(r)
    /\ DocumentField(r, references)[1] = "Some"
    /\ DocumentField(r, references)[2][2] = ReferencesKw
    /\ Len(ReferencesOf(r)) = Len(xs)
    /\ \A i \in 1..Len(xs) :
          /\ ReferencesOf(r)[i][path] = Member(xs[i], <<"p", "a", "t", "h">>)[2]
          /\ ~HasKey(xs[i], <<"p", "r", "e", "p", "e", "n", "d">>) => ReferencesOf(r)[i][prepend] = None

BoolReferences(r, b) ==
    /\ IsOk(r)
    /\ DocumentField(r, references) = Some(<<"References", Bool, b>>)

-----------------------------------------------------------------------------
(* C5 *)

\* C5: a camelCase key with a value of the field's kind sets the field, at
\* the top level and inside compilerOptions.
C5_CamelCaseKeysSetFields ==
    Plain =>
        /\ \A r \in Range(DocumentOptions) :
              doc = Obj1(r[2], r[3]) =>
                  IsOk(result) /\ DocumentField(result, r[1]) # None
        /\ \A r \in Range(CompilerOptionNames) :
              doc = InCompilerOptions(r[2], r[3]) =>
                  IsOk(result) /\ CompilerOption(result, r[1]) # None

-----------------------------------------------------------------------------
(* C6 *)

\* C6: a document that parses still parses, to the same Document, when a key
\* the schema does not have is added at the top level, in compilerOptions,
\* in a references element or in the typeAcquisition object.
C6_UnknownKeysIgnored ==
    (Plain /\ doc \in FullDocs /\ IsOk(result)) =>
        \A place \in Places : \A k \in UnknownKeys : \A v \in UnknownValues :
            parse_str(Emit(WithKey(doc, place, k, v))) = result

-----------------------------------------------------------------------------
(* C7 *)

\* C7: a comma followed by whitespace and `}` is removed, so the document
\* parses to what it parses to without the comma; a comma before `]` is
\* kept and parse_str returns an error.
C7_TrailingCommaAsymmetry ==
    Done =>
        /\ edit[1] = "objcomma" => result = parse_str(Emit(doc))
        /\ edit[1] = "arrcomma" => IsErr(result)

\* a document with a trailing comma in an object has parsed successfully
C7_Witness ==
    /\ Done
    /\ edit[1] = "objcomma"
    /\ edit[3] # <<>>
    /\ doc = InCompilerOptions(strict, JBool(TRUE))
    /\ IsOk(result)
    /\ CompilerOption(result, strict) = Some(TRUE)

-----------------------------------------------------------------------------
(* C8 *)

\* C8: on strict JSON the text handed to the JSON parser is the input, and
\* the contents of string literals appear unchanged in the Document.
C8_StrictJsonUntouched ==
    Plain =>
        /\ stripped = Ok(json)
        /\ \A s \in TrickyStrings :
              doc = Obj1(<<"e", "x", "t", "e", "n", "d", "s">>, JStr(s)) =>
                  IsOk(result) /\ DocumentField(result, extends) = Some(s)

-----------------------------------------------------------------------------
(* C9 *)

\* C9: compilerOptions.jsx parses exactly when the string is one of the
\* five lowercase-hyphenated tokens, to the variant of that token; every
\* other string is an error.
C9_JsxClosedCaseSensitive ==
    Plain =>
        \A tok \in JsxProbe :
            doc = JsxDoc(tok) =>
                IF \E r \in Range(JsxTokens) : r[2] = tok
                THEN /\ IsOk(result)
                     /\ \E r \in Range(JsxTokens) :
                           /\ r[2] = tok
                           /\ CompilerOption(result, jsx) = Some(<<"Jsx", r[1]>>)
                ELSE IsErr(result)

\* "react-jsx" has parsed to Jsx::ReactJsx
C9_Witness ==
    /\ Plain
    /\ doc = JsxDoc(<<"r", "e", "a", "c", "t", "-", "j", "s", "x">>)
    /\ IsOk(result)
    /\ CompilerOption(result, jsx) = Some(<<"Jsx", ReactJsx>>)

-----------------------------------------------------------------------------
(* C10 *)

AllUnset(fields, rec) ==
    /\ DOMAIN rec = {fields[n][1] : n \in 1..Len(fields)}
    /\ \A f \in DOMAIN rec : rec[f] = None

\* C10: {} parses with every Document field unset; {"compilerOptions": {}}
\* parses with compilerOptions set and every field of it unset; a field
\* whose key is absent is never set, whatever decorates the text.
C10_AbsentKeysUnset ==
    Done =>
        /\ (doc = JObj(<<>>) /\ (edit = NoEdit \/ IsOk(result))) =>
              IsOk(result) /\ AllUnset(TsConfig_fields, result[2])
        /\ (doc = Obj1(<<"c", "o", "m", "p", "i", "l", "e", "r", "O", "p", "t", "i", "o", "n", "s">>, JObj(<<>>))
                /\ (edit = NoEdit \/ IsOk(result))) =>
              /\ IsOk(result)
              /\ DocumentField(result, compiler_options)[1] = "Some"
              /\ AllUnset(CompilerOptions_fields,
                          DocumentField(result, compiler_options)[2])
              /\ \A f \in DOMAIN result[2] :
                    f # compiler_options => result[2][f] = None
        /\ (Kind(doc) = "obj" /\ IsOk(result)) =>
              \A r \in Range(DocumentOptions) :
                  ~HasKey(doc, r[2]) => DocumentField(result, r[1]) = None

\* {"compilerOptions": {}} has parsed
C10_Witness ==
    /\ Done
    /\ doc = Obj1(<<"c", "o", "m", "p", "i", "l", "e", "r", "O", "p", "t", "i", "o", "n", "s">>, JObj(<<>>))
    /\ edit = NoEdit
    /\ IsOk(result)
    /\ DocumentField(result, compiler_options) # None

-----------------------------------------------------------------------------
(* C11 *)

\* the mapping a paths object o denotes: its keys, each with its list
PathsMapping(o) ==
    [k \in {o[2][n][1] : n \in 1..Len(o[2])} |->
        [i \in 1..Len(Member(o, k)[2]) |-> Member(o, k)[2][i][2]]]

\* C11: for every paths object mapping string keys to lists of strings,
\* alone or after a string-valued baseUrl, parse_str succeeds and the paths
\* of the result has exactly the keys of the input, each with its list.
C11_PathsMappingPreserved ==
    Plain =>
        \A base \in PathsBases : \A o \in PathsObjects :
            doc = PathsDoc(base, o) =>
                /\ IsOk(result)
                /\ CompilerOption(result, paths) = Some(PathsMapping(o))

-----------------------------------------------------------------------------
(* C12 *)

\* the input is a text with a comment inserted, and the call is over
Commented == pc = "done" /\ edit[1] = "comment"

\* the input without its comment
Uncommented == ApplyComma(Emit(doc), edit[2])

\* index n of text t lies between two characters of one keyword or number
SplitsToken(t, n) ==
    /\ n > 1
    /\ n <= Len(t)
    /\ {t[n - 1], t[n]} \subseteq Range(LowerLetters) \cup Digits

\* C12: a line comment or a block comment inserted outside the string
\* literals of a text, between two of its tokens, leaves the outcome of
\* parse_str what it is without the comment; so an object whose trailing
\* comma is separated from its `}` by a comment parses like the same object
\* with the comment deleted.
C12_CommentsTransparent ==
    (Commented /\ ~SplitsToken(Uncommented, edit[3])) =>
        result = parse_str(Uncommented)

====
